---- MODULE Spec2Model ----
(***************************************************************************)
(* A model of the report-writer core: the outline parser                   *)
(* (outline_parser.py), the data catalog (data_catalog.py), the            *)
(* section-to-chart mapper (section_mapper.py) and the chart reader        *)
(* (chart_reader.py), the report state (report_state.py), the section meta *)
(* comments (section_meta.py) and the section files the orchestrator       *)
(* writes (orchestrator.py).                                               *)
(*                                                                         *)
(* Python strings are sequences of one-character strings, so that the      *)
(* regular expressions, splits, substring tests and sorts of the code are  *)
(* computed on the characters as the code computes them.                   *)
(***************************************************************************)
EXTENDS Integers, Sequences, FiniteSets, TLC

VARIABLES
    \* parse_outline
    content,          \* text of the outline file
    headings,         \* list(heading_pattern.finditer(content))
    idx,              \* loop index of parse_outline (1-based)
    parent_stack,     \* list of (level, id) pairs
    sections,         \* the list being returned
    opc,              \* position in parse_outline
    \* DataCatalog
    specsText,        \* text of plot_specs.json, or NoFile
    disk,             \* files found under the data root: [category, stem, suffix]
    plot_specs,       \* DataCatalog._plot_specs (title -> spec)
    partIdx,          \* loop index of _load_plot_specs (1-based)
    charts,           \* DataCatalog._charts (chart id -> ChartMeta)
    categories,       \* DataCatalog._categories
    toScan,           \* category folders _scan_charts has still to visit
    cpc,              \* position in DataCatalog.__init__
    \* SectionMapper
    mapFile,          \* what json.loads makes of the mapping file
    static_mappings,  \* SectionMapper._static_mappings
    ldIdx,            \* loop index of _load_static_mappings (1-based)
    ldPc,             \* position in SectionMapper.__init__
    call,             \* the call in progress: [kind, section]
    selIdx,           \* loop index over mapping.selectors (1-based)
    result,           \* local list of _resolve_configured_charts
    seen,             \* local set of _resolve_configured_charts
    ret,              \* value returned by the last call
    mpc,              \* position in get_charts_for_section(_obj)
    \* slugify
    slugIn,           \* the argument of slugify
    slugOut,          \* slugify(title)
    slugAgain,        \* slugify(slugify(title))
    slugPc,           \* how often slugify has run
    \* parse_review_block
    reviewText,       \* the argument of parse_review_block
    reviewLines,      \* text.strip().split("\n")
    lineIdx,          \* loop index of parse_review_block (1-based)
    author,           \* local author
    ratings,          \* local ratings (key -> int)
    notes_started,    \* local notes_started
    notes_lines,      \* local notes_lines
    reviewRet,        \* the tuple returned
    rpc,              \* position in parse_review_block
    \* ChartReader
    csvFiles,         \* content of the CSV files (path -> table, or unreadable)
    df_cache,         \* ChartReader._df_cache (chart id -> frame)
    reads,            \* the pd.read_csv calls so far: [id, ok]
    summaries,        \* the ChartSummary objects returned so far
    nextObj,          \* identity of the next object created
    callsLeft,        \* calls the caller has still to make
    rdCall,           \* the call in progress: [op, chart_id]
    df,               \* local df of get_summary
    scenIdx,          \* loop index over scenarios in get_summary (1-based)
    by_scenario,      \* local by_scenario of get_summary
    rdRet,            \* what the last call returned or raised
    rdPc,             \* position in load_data / get_summary
    \* ReportState
    figures,          \* ReportState.figures
    tables,           \* ReportState.tables
    section_meta,     \* ReportState.section_meta (section id -> SectionStateMeta)
    stCall,           \* the last ReportState call: [op, section_id]
    stRet,            \* what the last ReportState call returned
    \* section meta comments
    smMeta,           \* the SectionMetaComment m
    smContent,        \* the section content
    smSerialized,     \* serialize_section_meta(m)
    smParsed,         \* parse_section_meta(serialize_section_meta(m))
    smInjected,       \* inject_section_meta(content, m)
    smAgain,          \* inject_section_meta(inject_section_meta(content, m), m)
    smPc,             \* which of these have been computed
    \* section files
    scPhase,          \* whether content is the outline or a written section file
    scSection,        \* the Section that was written
    scBody            \* the body text it was written with

outlineVars == <<content, headings, idx, parent_stack, sections, opc>>
catalogVars == <<specsText, disk, plot_specs, partIdx, charts, categories, toScan, cpc>>
loaderVars  == <<mapFile, static_mappings, ldIdx, ldPc>>
mapperVars  == <<call, selIdx, result, seen, ret, mpc>>
slugVars    == <<slugIn, slugOut, slugAgain, slugPc>>
reviewVars  == <<reviewText, reviewLines, lineIdx, author, ratings, notes_started,
                 notes_lines, reviewRet, rpc>>
readerVars  == <<csvFiles, df_cache, reads, summaries, nextObj, callsLeft, rdCall, df,
                 scenIdx, by_scenario, rdRet, rdPc>>
stateVars   == <<figures, tables, section_meta, stCall, stRet>>
sidecarVars == <<scPhase, scSection, scBody>>
metaVars    == <<smMeta, smContent, smSerialized, smParsed, smInjected, smAgain, smPc>>
vars == <<outlineVars, catalogVars, loaderVars, mapperVars, slugVars, reviewVars,
          readerVars, stateVars, metaVars, sidecarVars>>

(***************************************************************************)
(* Strings                                                                 *)
(***************************************************************************)

\* Python's None, kept apart from every string (strings hold one-character
\* elements only).
None == <<"None">>

\* The characters of the model in code point order, as sorted() compares them.
CodeOrder ==
    <<" ","!","#","*","-",".","/","0","1","2","3","4","5","6","7","8","9","?","A","B","C","D","E","F","G","H","I","J","K","L","M","N","O","P","Q","R","S","T","U","V","W","X","Y","Z","_","a","b","c","d","e","f","g","h","i","j","k","l","m","n","o","p","q","r","s","t","u","v","w","x","y","z">>

Ord == [c \in {CodeOrder[i] : i \in 1..Len(CodeOrder)} |->
           CHOOSE i \in 1..Len(CodeOrder) : CodeOrder[i] = c]

UpperCase == <<"A","B","C","D","E","F","G","H","I","J","K","L","M","N","O","P","Q","R","S","T","U","V","W","X","Y","Z">>
LowerCase == <<"a","b","c","d","e","f","g","h","i","j","k","l","m","n","o","p","q","r","s","t","u","v","w","x","y","z">>
Digits == {"0", "1", "2", "3", "4", "5", "6", "7", "8", "9"}
Letters == {UpperCase[i] : i \in 1..26} \cup {LowerCase[i] : i \in 1..26}

\* \s of the re module, on the characters of the model.
Space == {" ", "\n", "\t"}

\* \w of the re module.
WordChar == Letters \cup Digits \cup {"_"}

ToLowerMap == [c \in {UpperCase[i] : i \in 1..26} |->
                  LowerCase[CHOOSE i \in 1..26 : UpperCase[i] = c]]

ToUpperMap == [c \in {LowerCase[i] : i \in 1..26} |->
                  UpperCase[CHOOSE i \in 1..26 : LowerCase[i] = c]]

LowerChar(c) == IF c \in DOMAIN ToLowerMap THEN ToLowerMap[c] ELSE c

UpperChar(c) == IF c \in DOMAIN ToUpperMap THEN ToUpperMap[c] ELSE c

\* str.lower()
Lower(s) == [i \in 1..Len(s) |-> LowerChar(s[i])]

SetMin(S) == CHOOSE x \in S : \A y \in S : x <= y
SetMax(S) == CHOOSE x \in S : \A y \in S : y <= x

\* str.strip(chars): drop the characters of cs from both ends.
Strip(s, cs) ==
    LET keep == {i \in 1..Len(s) : s[i] \notin cs}
    IN  IF keep = {} THEN <<>> ELSE SubSeq(s, SetMin(keep), SetMax(keep))

\* re.sub of a character class by r, one character at a time.
ReplaceEach(s, cs, r) == [i \in 1..Len(s) |-> IF s[i] \in cs THEN r ELSE s[i]]

\* re.sub(r"[cs]+", r, s): every maximal run of characters of cs becomes r.
ReplaceRuns(s, cs, r) ==
    LET first == SelectSeq([i \in 1..Len(s) |-> i],
                           LAMBDA i : s[i] \notin cs \/ i = 1 \/ s[i - 1] \notin cs)
    IN  [k \in 1..Len(first) |-> IF s[first[k]] \in cs THEN r ELSE s[first[k]]]

\* The maximal runs of characters outside seps: str.split(sep) without its
\* empty strings (as a set: the callers build sets of words).
Runs(s, seps) ==
    LET starts == {i \in 1..Len(s) : s[i] \notin seps /\ (i = 1 \/ s[i - 1] \in seps)}
        stop(i) == SetMin({j \in i..Len(s) : j = Len(s) \/ s[j + 1] \in seps})
    IN  {SubSeq(s, i, stop(i)) : i \in starts}

\* str.split(): the maximal runs of non-space characters.
Words(s) == Runs(s, Space)

\* a in b, for strings.
IsSubstring(a, b) ==
    \E i \in 0..(Len(b) - Len(a)) : SubSeq(b, i + 1, i + Len(a)) = a

\* a < b as Python compares strings: by code point, a proper prefix first.
StrLess(a, b) ==
    \E i \in 1..(Len(b)) :
        /\ i <= Len(a) + 1
        /\ \A k \in 1..(i - 1) : a[k] = b[k]
        /\ \/ i = Len(a) + 1
           \/ (i <= Len(a) /\ Ord[a[i]] < Ord[b[i]])

\* sorted(S) for a set of strings.
RECURSIVE SortStrings(_)
SortStrings(S) ==
    IF S = {} THEN <<>>
    ELSE LET m == CHOOSE x \in S : \A y \in S \ {x} : StrLess(x, y)
         IN  <<m>> \o SortStrings(S \ {m})

Range(s) == {s[i] : i \in 1..Len(s)}

IsPrefix(s, t) == Len(s) <= Len(t) /\ SubSeq(t, 1, Len(s)) = s

\* Lines joined by "\n".
RECURSIVE JoinLines(_)
JoinLines(ls) ==
    IF ls = <<>> THEN <<>>
    ELSE IF Len(ls) = 1 THEN ls[1]
    ELSE ls[1] \o <<"\n">> \o JoinLines(Tail(ls))

\* The sequences over S of length at most n.
SeqsUpTo(S, n) == UNION {[1..k -> S] : k \in 0..n}

(***************************************************************************)
(* outline_parser.py                                                       *)
(***************************************************************************)

\* slugify without its last line, slug.strip("-")
slugifyUnstripped(title) ==
    LET s1 == Strip(Lower(title), Space)
        s2 == SelectSeq(s1, LAMBDA c : c \in WordChar \cup Space \cup {"-"})
        s3 == ReplaceRuns(s2, Space \cup {"_"}, "-")
    IN  ReplaceRuns(s3, {"-"}, "-")

\* slugify(title)
slugify(title) ==
    LET s1 == Strip(Lower(title), Space)
        s2 == SelectSeq(s1, LAMBDA c : c \in WordChar \cup Space \cup {"-"})
        s3 == ReplaceRuns(s2, Space \cup {"_"}, "-")
        s4 == ReplaceRuns(s3, {"-"}, "-")
    IN  Strip(s4, {"-"})

\* First index at or after p whose character is not in cs (Len(c) + 1 if none).
RunEnd(c, p, cs) ==
    SetMin({j \in p..(Len(c) + 1) : j = Len(c) + 1 \/ c[j] \notin cs})

\* First index at or after p that holds a newline (Len(c) + 1 if none): where
\* $ matches under re.MULTILINE.
LineEnd(c, p) ==
    SetMin({j \in p..(Len(c) + 1) : j = Len(c) + 1 \/ c[j] = "\n"})

NoMatch == [ok |-> FALSE, level |-> 0, title |-> <<>>, start |-> 0, end |-> 0]

\* heading_pattern = ^(#{1,6})\s+(.+?)\s*$ tried at the line start p: the
\* hashes and the white space after them are greedy (white space runs across
\* newlines), the title is lazy, and the trailing white space is greedy up to
\* the last place where $ matches.  start is the index of the first hash,
\* end the index after the match.
HeadingAt(c, p) ==
    LET a == RunEnd(c, p, {"#"})
        b == RunEnd(c, a, Space)
    IN  IF a - p < 1 \/ a - p > 6 \/ b = a THEN NoMatch
        ELSE IF b <= Len(c) THEN
            LET eol == LineEnd(c, b)
                e == SetMin({x \in (b + 1)..eol : \A k \in x..(eol - 1) : c[k] \in Space})
                f == RunEnd(c, e, Space)
                g == SetMax({x \in e..f : x = Len(c) + 1 \/ c[x] = "\n"})
            IN  [ok |-> TRUE, level |-> a - p, title |-> SubSeq(c, b, e - 1),
                 start |-> p, end |-> g]
        ELSE
            \* white space up to the end of the text: \s+ gives back characters
            \* until the title can take one that is not a newline
            LET ts == {t \in (a + 1)..Len(c) : c[t] # "\n"}
            IN  IF ts = {} THEN NoMatch
                ELSE [ok |-> TRUE, level |-> a - p, title |-> <<c[SetMax(ts)]>>,
                      start |-> p, end |-> Len(c) + 1]

\* list(heading_pattern.finditer(content)), scanning from index p.  A match
\* begins at a line start only, so the scan goes on at the next line start.
RECURSIVE FindHeadings(_, _)
FindHeadings(c, p) ==
    IF p > Len(c) THEN <<>>
    ELSE LET m == IF p = 1 \/ c[p - 1] = "\n" THEN HeadingAt(c, p) ELSE NoMatch
         IN  IF m.ok THEN <<m>> \o FindHeadings(c, m.end)
             ELSE FindHeadings(c, LineEnd(c, p) + 1)

\* while parent_stack and parent_stack[-1][0] >= level: parent_stack.pop()
PopStackOnce(stack, level) ==
    IF stack # <<>> /\ stack[Len(stack)][1] >= level
    THEN SubSeq(stack, 1, Len(stack) - 1)
    ELSE stack

RECURSIVE PopStackGreater(_, _)
PopStackGreater(stack, level) ==
    IF stack # <<>> /\ stack[Len(stack)][1] > level
    THEN PopStackGreater(SubSeq(stack, 1, Len(stack) - 1), level)
    ELSE stack

RECURSIVE PopStack(_, _)
PopStack(stack, level) ==
    IF stack # <<>> /\ stack[Len(stack)][1] >= level
    THEN PopStack(SubSeq(stack, 1, Len(stack) - 1), level)
    ELSE stack

\* parent_id = parent_stack[-1][1] if parent_stack else None
ParentOf(stack) == IF stack # <<>> THEN stack[Len(stack)][2] ELSE None


(***************************************************************************)
(* data_catalog.py                                                         *)
(*                                                                         *)
(* The text of plot_specs.json is a sequence of tokens: the characters     *)
(* "{", "}", ",", "\n" and " " one by one, and one token for the text of   *)
(* each JSON member (a member holds no brace and no raw newline of its     *)
(* own).                                                                   *)
(***************************************************************************)

\* The members the plot specs of the model are written with, and what
\* json.loads makes of each.
MemberOf ==
    ("\"title\":\"X\"" :> [key |-> "title", value |-> <<"X">>]) @@
    ("\"title\":\"Why\"" :> [key |-> "title", value |-> <<"W","h","y">>]) @@
    ("\"title\":\"\"" :> [key |-> "title", value |-> <<>>]) @@
    ("\"si_unit\":\"Mt\"" :> [key |-> "si_unit", value |-> <<"M","t">>]) @@
    ("\"groupby\":[\"scen\",\"sector\"]" :>
        [key |-> "groupby", value |-> <<<<"s","c","e","n">>, <<"s","e","c","t","o","r">>>>])

JsonSpace == {"\n", " "}

\* The members of an object body: member ("," member)*, white space anywhere
\* between the tokens.  ok is FALSE where json.loads raises JSONDecodeError.
RECURSIVE JsonMembers(_, _)
JsonMembers(toks, obj) ==
    IF toks = <<>> \/ toks[1] \notin DOMAIN MemberOf
    THEN [ok |-> FALSE, obj |-> obj]
    ELSE LET m == MemberOf[toks[1]]
             put == [k \in DOMAIN obj \cup {m.key} |->
                        IF k = m.key THEN m.value ELSE obj[k]]
             rest == Tail(toks)
         IN  IF rest = <<>> THEN [ok |-> TRUE, obj |-> put]
             ELSE IF rest[1] = "," THEN JsonMembers(Tail(rest), put)
             ELSE [ok |-> FALSE, obj |-> obj]

\* json.loads(json_str) for the token texts of the model: one object and
\* nothing else.
JsonLoads(toks) ==
    LET t == Strip(toks, JsonSpace)
        inner == SelectSeq(SubSeq(t, 2, Len(t) - 1), LAMBDA x : x \notin JsonSpace)
    IN  IF Len(t) < 2 \/ t[1] # "{" \/ t[Len(t)] # "}"
        THEN [ok |-> FALSE, obj |-> <<>>]
        ELSE IF inner = <<>> THEN [ok |-> TRUE, obj |-> <<>>]
        ELSE JsonMembers(inner, <<>>)

Separator == <<"}", "\n", "{">>

\* content.split("}\n{")
RECURSIVE SplitSpecs(_)
SplitSpecs(text) ==
    LET at == {i \in 1..(Len(text) - 2) : SubSeq(text, i, i + 2) = Separator}
    IN  IF at = {} THEN <<text>>
        ELSE <<SubSeq(text, 1, SetMin(at) - 1)>>
                 \o SplitSpecs(SubSeq(text, SetMin(at) + 3, Len(text)))

\* The json_str _load_plot_specs builds for part i (1-based) of the parts.
Rebraced(parts, i) ==
    IF i = 1 THEN parts[i] \o <<"}">>
    ELSE IF i = Len(parts) THEN <<"{">> \o parts[i]
    ELSE <<"{">> \o parts[i] \o <<"}">>

\* d[k] = v for a dict kept as a sequence of [key, value] in insertion order.
DictSet(d, k, v) ==
    IF \E i \in 1..Len(d) : d[i].key = k
    THEN [i \in 1..Len(d) |-> IF d[i].key = k THEN [key |-> k, value |-> v] ELSE d[i]]
    ELSE Append(d, [key |-> k, value |-> v])

DictKeys(d) == {d[i].key : i \in 1..Len(d)}

\* spec.get(k, default)
Get(obj, k, default) == IF k \in DOMAIN obj THEN obj[k] ELSE default

\* _id_to_title: chart_id.replace("_", " ").title()
IdToTitle(chart_id) ==
    LET s == ReplaceEach(chart_id, {"_"}, " ")
    IN  [i \in 1..Len(s) |->
            IF i = 1 \/ s[i - 1] \notin Letters THEN UpperChar(s[i]) ELSE LowerChar(s[i])]

\* _normalize_title
NormalizeTitle(title) ==
    SelectSeq(Lower(title), LAMBDA c : c \in Range(LowerCase) \cup Digits)

\* _find_spec_for_chart: the first spec, in insertion order, whose normalized
\* title is the normalized chart id; found is FALSE where the code returns None.
FindSpecForChart(specs, chart_id) ==
    LET want == NormalizeTitle(Lower(ReplaceEach(chart_id, {"_"}, " ")))
        hits == {i \in 1..Len(specs) : NormalizeTitle(Lower(specs[i].key)) = want}
    IN  IF hits = {} THEN [found |-> FALSE, spec |-> <<>>]
        ELSE [found |-> TRUE, spec |-> specs[SetMin(hits)].value]

\* Path.suffix and Path.stem of a file name.
LastDot(name) ==
    LET dots == {i \in 1..Len(name) : name[i] = "."}
    IN  IF dots = {} THEN 0 ELSE SetMax(dots)

Suffix(name) ==
    IF LastDot(name) > 1 /\ LastDot(name) < Len(name)
    THEN SubSeq(name, LastDot(name), Len(name))
    ELSE <<>>

Stem(name) ==
    IF LastDot(name) > 1 /\ LastDot(name) < Len(name)
    THEN SubSeq(name, 1, LastDot(name) - 1)
    ELSE name

ChartSuffixes == {<<".","c","s","v">>, <<".","p","n","g">>, <<".","j","s","o","n">>}

\* category_path / f"{chart_id}.ext" if it exists, else None
PathIfExists(files, category, chart_id, ext) ==
    IF [dir |-> category, name |-> chart_id \o ext] \in files
    THEN category \o <<"/">> \o chart_id \o ext
    ELSE None

\* The ChartMeta _scan_category builds for chart_id.
MakeChart(files, specs, category, chart_id) ==
    LET hit == FindSpecForChart(specs, chart_id)
        spec == hit.spec
        has == hit.found /\ DOMAIN spec # {}
        groupby == IF has THEN Get(spec, "groupby", <<>>) ELSE <<>>
    IN  [id |-> chart_id,
         category |-> category,
         title |-> IF has THEN Get(spec, "title", IdToTitle(chart_id))
                   ELSE IdToTitle(chart_id),
         path_csv |-> PathIfExists(files, category, chart_id, <<".","c","s","v">>),
         path_png |-> PathIfExists(files, category, chart_id, <<".","p","n","g">>),
         path_json |-> PathIfExists(files, category, chart_id, <<".","j","s","o","n">>),
         dimensions |-> SelectSeq(groupby, LAMBDA col : col \notin {<<"s","c","e","n">>, <<"y","e","a","r">>, <<"u","n","i","t">>}),
         units |-> IF has THEN Get(spec, "si_unit", <<>>) ELSE <<>>,
         filter_expression |-> IF has THEN Get(spec, "filter", <<>>) ELSE <<>>]

\* The chart ids _scan_category finds in a category folder.
ChartIds(files, category) ==
    {Stem(f.name) : f \in {g \in files : g.dir = category /\ Suffix(g.name) \in ChartSuffixes}}

\* _scan_category: self._charts[chart_id] = chart for every chart id of the
\* folder (in sorted order; a later assignment to the same key replaces the
\* earlier one).
ScanCategory(chartsNow, files, specs, category) ==
    LET ids == ChartIds(files, category)
    IN  [k \in DOMAIN chartsNow \cup ids |->
            IF k \in ids THEN MakeChart(files, specs, category, k) ELSE chartsNow[k]]

\* (c.category, c.id) < (d.category, d.id)
ChartLess(c, d) ==
    \/ StrLess(c.category, d.category)
    \/ (c.category = d.category /\ StrLess(c.id, d.id))

\* sorted(S, key=lambda c: (c.category, c.id)) for a set of charts with
\* distinct ids
RECURSIVE SortCharts(_)
SortCharts(S) ==
    IF S = {} THEN <<>>
    ELSE LET m == CHOOSE x \in S : \A y \in S \ {x} : ChartLess(x, y)
         IN  <<m>> \o SortCharts(S \ {m})

\* list_charts(category); category = None lists every chart
ListCharts(chartsNow, category) ==
    SortCharts({chartsNow[k] : k \in {j \in DOMAIN chartsNow :
                   category = None \/ chartsNow[j].category = category}})

\* What get_chart returns for an id the catalog does not hold (None in the code).
NoChart == [missing |-> TRUE]

\* get_chart(chart_id)
GetChart(chartsNow, chart_id) ==
    IF chart_id \in DOMAIN chartsNow THEN chartsNow[chart_id] ELSE NoChart

\* The folders and files of the data roots of the model: two category
\* folders and a dot folder; two files of one chart, a chart whose id holds an
\* underscore, and a file that is no chart file.
DirNames == {<<"e","m","i","s","s","i","o","n","s">>, <<"t","r","a","n","s","p","o","r","t">>, <<".","c","a","c","h","e">>}

FileNames == {<<"x",".","c","s","v">>, <<"x",".","p","n","g">>, <<"a","_","b",".","j","s","o","n">>, <<"n",".","t","x","t">>}

MaxFiles == 2

Disks ==
    {[exists |-> TRUE, dirs |-> D, files |-> F] :
        D \in SUBSET DirNames,
        F \in {G \in SUBSET [dir : DirNames, name : FileNames] : Cardinality(G) <= MaxFiles}}

NoRoot == [exists |-> FALSE, dirs |-> {}, files |-> {}]

\* The JSON objects plot_specs.json is written with: two with a title, one
\* without, one with an empty title and one that is not JSON.
SpecObjects ==
    {<<"{", "\"title\":\"X\"", ",", "\"groupby\":[\"scen\",\"sector\"]", "}">>,
     <<"{", "\n", "\"title\":\"Why\"", ",", "\"si_unit\":\"Mt\"", "\n", "}">>,
     <<"{", "\"si_unit\":\"Mt\"", "}">>,
     <<"{", "\"title\":\"\"", "}">>,
     <<"{", ",", "}">>}

MaxSpecs == 2

\* Objects written back to back, with and without a newline at the end.
SpecTexts ==
    {JoinLines(os) \o tail : os \in SeqsUpTo(SpecObjects, MaxSpecs), tail \in {<<>>, <<"\n">>}}

CatalogIdle ==
    /\ specsText = None
    /\ disk = NoRoot
    /\ plot_specs = <<>>
    /\ partIdx = 0
    /\ charts = <<>>
    /\ categories = <<>>
    /\ toScan = <<>>
    /\ cpc = "idle"

\* entry.is_dir() and not entry.name.startswith(".") over sorted(iterdir())
CategoryFolders(d) ==
    IF d.exists THEN SortStrings({n \in d.dirs : n[1] # "."}) ELSE <<>>

\* _load_plot_specs when plot_specs.json does not exist
LoadSpecsMissing ==
    /\ cpc = "load"
    /\ specsText = None
    /\ cpc' = "scan"
    /\ toScan' = CategoryFolders(disk)
    /\ UNCHANGED <<specsText, disk, plot_specs, partIdx, charts, categories>>
    /\ UNCHANGED <<outlineVars, loaderVars, mapperVars, slugVars, reviewVars, readerVars, stateVars, metaVars, sidecarVars>>

\* One iteration of the loop of _load_plot_specs over the parts (plot_specs
\* holds specs_by_title while the loop runs).
LoadSpecPart ==
    /\ cpc = "load"
    /\ specsText # None
    /\ partIdx <= Len(SplitSpecs(specsText))
    /\ LET r == JsonLoads(Rebraced(SplitSpecs(specsText), partIdx))
           title == Get(r.obj, "title", <<>>)
       IN  plot_specs' = IF r.ok /\ title # <<>>
                         THEN DictSet(plot_specs, title, r.obj)
                         ELSE plot_specs
    /\ partIdx' = partIdx + 1
    /\ UNCHANGED <<specsText, disk, charts, categories, toScan, cpc>>
    /\ UNCHANGED <<outlineVars, loaderVars, mapperVars, slugVars, reviewVars, readerVars, stateVars, metaVars, sidecarVars>>

\* self._plot_specs = specs_by_title; _scan_charts starts
LoadSpecsEnd ==
    /\ cpc = "load"
    /\ specsText # None
    /\ partIdx > Len(SplitSpecs(specsText))
    /\ cpc' = "scan"
    /\ toScan' = CategoryFolders(disk)
    /\ UNCHANGED <<specsText, disk, plot_specs, partIdx, charts, categories>>
    /\ UNCHANGED <<outlineVars, loaderVars, mapperVars, slugVars, reviewVars, readerVars, stateVars, metaVars, sidecarVars>>

\* One iteration of the loop of _scan_charts: categories.append(entry.name);
\* self._scan_category(entry)
ScanNextCategory ==
    /\ cpc = "scan"
    /\ toScan # <<>>
    /\ categories' = Append(categories, Head(toScan))
    /\ charts' = ScanCategory(charts, disk.files, plot_specs, Head(toScan))
    /\ toScan' = Tail(toScan)
    /\ UNCHANGED <<specsText, disk, plot_specs, partIdx, cpc>>
    /\ UNCHANGED <<outlineVars, loaderVars, mapperVars, slugVars, reviewVars, readerVars, stateVars, metaVars, sidecarVars>>

\* self._categories = categories; the constructor returns
ScanEnd ==
    /\ cpc = "scan"
    /\ toScan = <<>>
    /\ cpc' = "done"
    /\ UNCHANGED <<specsText, disk, plot_specs, partIdx, charts, categories, toScan>>
    /\ UNCHANGED <<outlineVars, loaderVars, mapperVars, slugVars, reviewVars, readerVars, stateVars, metaVars, sidecarVars>>

(***************************************************************************)
(* section_mapper.py                                                       *)
(***************************************************************************)

\* An int | None value of the code: none is TRUE for None.
NoInt == [none |-> TRUE, v |-> 0]
SomeInt(n) == [none |-> FALSE, v |-> n]

\* The truth value Python gives an int | None: None and 0 are false.
Truthy(o) == ~o.none /\ o.v # 0

\* The truth value Python gives a str | None: None and "" are false.
TruthyStr(s) == s # None /\ s # <<>>

\* CATEGORY_ALIASES
CATEGORY_ALIASES ==
    <<[key |-> <<"e","m","i","s","s","i","o","n","s">>, cats |-> {<<"e","m","i","s","s","i","o","n","s">>}],
      [key |-> <<"e","l","e","c","t","r","i","c","i","t","y","-","g","e","n","e","r","a","t","i","o","n">>, cats |-> {<<"e","l","e","c","t","r","i","c","i","t","y">>}],
      [key |-> <<"e","l","e","c","t","r","i","c","i","t","y">>, cats |-> {<<"e","l","e","c","t","r","i","c","i","t","y">>}],
      [key |-> <<"t","r","a","n","s","p","o","r","t">>, cats |-> {<<"t","r","a","n","s","p","o","r","t">>}],
      [key |-> <<"r","e","s","i","d","e","n","t","i","a","l">>, cats |-> {<<"b","u","i","l","t","_","e","n","v","i","r","o","n","m","e","n","t">>}],
      [key |-> <<"c","o","m","m","e","r","c","i","a","l">>, cats |-> {<<"b","u","i","l","t","_","e","n","v","i","r","o","n","m","e","n","t">>}],
      [key |-> <<"a","g","r","i","c","u","l","t","u","r","e">>, cats |-> {<<"a","g","r","i","c","u","l","t","u","r","e">>}],
      [key |-> <<"i","n","d","u","s","t","r","y">>, cats |-> {<<"i","n","d","u","s","t","r","y">>, <<"m","a","n","u","f","a","c","t","u","r","i","n","g">>}],
      [key |-> <<"m","a","n","u","f","a","c","t","u","r","i","n","g">>, cats |-> {<<"m","a","n","u","f","a","c","t","u","r","i","n","g">>, <<"i","n","d","u","s","t","r","y">>}]>>

\* The stopwords of get_section_keywords.
stopwords ==
    {<<"t","h","e">>, <<"a">>, <<"a","n">>, <<"a","n","d">>, <<"o","r">>, <<"b","u","t">>, <<"i","n">>, <<"o","n">>, <<"a","t">>, <<"t","o">>,
     <<"f","o","r">>, <<"o","f">>, <<"w","i","t","h">>, <<"b","y">>, <<"f","r","o","m">>, <<"a","s">>, <<"i","s">>, <<"a","r","e">>, <<"w","a","s">>,
     <<"w","e","r","e">>, <<"b","e">>, <<"b","e","e","n">>, <<"b","e","i","n","g">>, <<"h","a","v","e">>, <<"h","a","s">>, <<"h","a","d">>, <<"d","o">>,
     <<"d","o","e","s">>, <<"d","i","d">>, <<"w","i","l","l">>, <<"w","o","u","l","d">>, <<"c","o","u","l","d">>, <<"s","h","o","u","l","d">>, <<"m","a","y">>,
     <<"m","i","g","h","t">>, <<"m","u","s","t">>, <<"s","h","a","l","l">>, <<"c","a","n">>, <<"t","h","i","s">>, <<"t","h","a","t">>, <<"t","h","e","s","e">>,
     <<"t","h","o","s","e">>, <<"i","t">>, <<"i","t","s">>, <<"t","h","e","i","r">>, <<"t","h","e","y">>, <<"s","e","c","t","i","o","n">>, <<"i","n","c","l","u","d","e">>,
     <<"i","n","c","l","u","d","i","n","g">>, <<"d","i","s","c","u","s","s">>, <<"d","e","s","c","r","i","b","e">>, <<"e","x","p","l","a","i","n">>, <<"a","n","a","l","y","z","e">>,
     <<"a","n","a","l","y","s","i","s">>, <<"o","v","e","r","v","i","e","w">>, <<"s","u","m","m","a","r","y">>, <<"a","b","o","u","t">>, <<"h","o","w">>, <<"w","h","a","t">>,
     <<"w","h","e","n">>, <<"w","h","e","r","e">>, <<"w","h","y">>, <<"w","h","i","c","h">>, <<"k","e","y">>, <<"m","a","i","n">>, <<"m","a","j","o","r">>,
     <<"p","r","i","m","a","r","y">>}

\* get_section_keywords(section)
get_section_keywords(section) ==
    LET text == Lower(section.title \o <<" ">> \o section.instructions)
        clean == [i \in 1..Len(text) |->
                     IF text[i] \in WordChar \cup Space \cup {"-"} THEN text[i] ELSE " "]
    IN  {w \in Words(clean) : Len(w) > 2 /\ w \notin stopwords}

\* _extract_keywords_from_id
ExtractKeywordsFromId(section_id) ==
    {w \in Words(Lower(ReplaceEach(section_id, {"-", "_"}, " "))) : Len(w) > 2}

\* _get_category_matches
GetCategoryMatches(section_id) ==
    UNION {CATEGORY_ALIASES[i].cats :
              i \in {j \in 1..Len(CATEGORY_ALIASES) :
                        \/ IsSubstring(CATEGORY_ALIASES[j].key, Lower(section_id))
                        \/ IsSubstring(Lower(section_id), CATEGORY_ALIASES[j].key)}}

\* _score_chart; the scores of the code are whole-numbered floats.
ScoreChart(chart, keywords, section_id, category_matches) ==
    LET section_id_parts == Words(ReplaceEach(Lower(section_id), {"-"}, " "))
        title_lower == Lower(chart.title)
        chart_title_words ==
            Words([i \in 1..Len(title_lower) |->
                      IF title_lower[i] \in WordChar \cup Space THEN title_lower[i] ELSE " "])
        section_id_lower == ReplaceEach(Lower(section_id), {"-"}, "_")
        chart_id_lower == Lower(chart.id)
    IN  (IF chart.category \in category_matches THEN 3 ELSE 0)
        + (IF Lower(chart.category) \in section_id_parts THEN 2 ELSE 0)
        + Cardinality(keywords \cap chart_title_words)
        + (IF IsSubstring(section_id_lower, chart_id_lower) THEN 2
           ELSE IF \E part \in Runs(section_id_lower, {"_"}) :
                       Len(part) > 3 /\ IsSubstring(part, chart_id_lower)
                THEN 1 ELSE 0)

\* scored_charts.sort(key=lambda x: (-x[0], x[1].id)) for a set of
\* [score, chart] with distinct chart ids
RECURSIVE SortScoredByCategory(_)
SortScoredByCategory(S) ==
    IF S = {} THEN <<>>
    ELSE LET m == CHOOSE x \in S : \A y \in S \ {x} :
                      \/ x.score > y.score
                      \/ (x.score = y.score /\ ChartLess(x.chart, y.chart))
         IN  <<m>> \o SortScoredByCategory(S \ {m})

RECURSIVE SortScored(_)
SortScored(S) ==
    IF S = {} THEN <<>>
    ELSE LET m == CHOOSE x \in S : \A y \in S \ {x} :
                      \/ x.score > y.score
                      \/ (x.score = y.score /\ StrLess(x.chart.id, y.chart.id))
         IN  <<m>> \o SortScored(S \ {m})

\* scored_charts[:5]
MaxAutoCharts == 5

\* _find_matching_charts
FindMatchingCharts(chartsNow, keywords, section_id) ==
    LET category_matches == GetCategoryMatches(section_id)
        scored == {[score |-> ScoreChart(chartsNow[k], keywords, section_id, category_matches),
                    chart |-> chartsNow[k]] : k \in DOMAIN chartsNow}
        sorted == SortScored({x \in scored : x.score > 0})
    IN  [i \in 1..(IF Len(sorted) < MaxAutoCharts THEN Len(sorted) ELSE MaxAutoCharts) |->
            sorted[i].chart]

\* _auto_map_section
AutoMapSection(chartsNow, section_id) ==
    FindMatchingCharts(chartsNow, ExtractKeywordsFromId(section_id), section_id)

\* _auto_map_section_with_context
AutoMapSectionWithContext(chartsNow, section) ==
    FindMatchingCharts(chartsNow,
                       get_section_keywords(section) \cup ExtractKeywordsFromId(section.id),
                       section.id)

\* The text after the first "/" of chart_id: chart_id.split("/", 1)[1]
AfterSlash(chart_id) ==
    SubSeq(chart_id, SetMin({i \in 1..Len(chart_id) : chart_id[i] = "/"}) + 1, Len(chart_id))

\* A lookup that gives a chart of the catalog for an id no chart has.
LookupChartOrAny(chartsNow, chart_id) ==
    IF GetChart(chartsNow, chart_id) # NoChart THEN GetChart(chartsNow, chart_id)
    ELSE IF "/" \in Range(chart_id) /\ GetChart(chartsNow, AfterSlash(chart_id)) # NoChart
    THEN GetChart(chartsNow, AfterSlash(chart_id))
    ELSE IF DOMAIN chartsNow # {} THEN chartsNow[CHOOSE k \in DOMAIN chartsNow : TRUE]
    ELSE NoChart

\* A lookup that keeps the category of "category/id": the chart of that id
\* only if it is in that category.
LookupChartInCategory(chartsNow, chart_id) ==
    IF GetChart(chartsNow, chart_id) # NoChart THEN GetChart(chartsNow, chart_id)
    ELSE IF "/" \in Range(chart_id)
    THEN LET base == GetChart(chartsNow, AfterSlash(chart_id))
         IN  IF base = NoChart THEN NoChart
             ELSE IF base.category \o <<"/">> \o base.id = chart_id THEN base
             ELSE NoChart
    ELSE NoChart

\* _lookup_chart
LookupChart(chartsNow, chart_id) ==
    IF GetChart(chartsNow, chart_id) # NoChart THEN GetChart(chartsNow, chart_id)
    ELSE IF "/" \in Range(chart_id) THEN GetChart(chartsNow, AfterSlash(chart_id))
    ELSE NoChart

\* fnmatch.fnmatch(name, pat) for patterns of literals, "*" and "?"
RECURSIVE FnMatch(_, _)
FnMatch(name, pat) ==
    IF pat = <<>> THEN name = <<>>
    ELSE IF pat[1] = "*"
    THEN \E k \in 0..Len(name) : FnMatch(SubSeq(name, k + 1, Len(name)), Tail(pat))
    ELSE /\ name # <<>>
         /\ (pat[1] = "?" \/ pat[1] = name[1])
         /\ FnMatch(Tail(name), Tail(pat))

\* _match_pattern: the matching charts in list_charts() order
MatchPattern(chartsNow, pattern) ==
    SelectSeq(ListCharts(chartsNow, None),
              LAMBDA c : IF "/" \in Range(pattern)
                         THEN FnMatch(c.category \o <<"/">> \o c.id, pattern)
                         ELSE FnMatch(c.id, pattern))

\* matches.sort(key=lambda c: c.title): a stable sort of a list that is in
\* (category, id) order
RECURSIVE SortByTitle(_)
SortByTitle(S) ==
    IF S = {} THEN <<>>
    ELSE LET m == CHOOSE x \in S : \A y \in S \ {x} :
                      \/ StrLess(x.title, y.title)
                      \/ (x.title = y.title /\ ChartLess(x, y))
         IN  <<m>> \o SortByTitle(S \ {m})

\* The matches of a pattern selector in the order the selector takes them.
SortedMatches(chartsNow, sel) ==
    IF sel.sort = <<"t","i","t","l","e">> THEN SortByTitle(Range(MatchPattern(chartsNow, sel.pattern)))
    ELSE SortCharts(Range(MatchPattern(chartsNow, sel.pattern)))

\* add_chart(chart) on the locals st = [result, seen] under the section cap;
\* added is what add_chart returns.
AddChartNoDedup(st, cap, chart) ==
    IF Truthy(cap) /\ Len(st.result) >= cap.v
    THEN [result |-> st.result, seen |-> st.seen, added |-> FALSE]
    ELSE [result |-> Append(st.result, chart),
          seen |-> st.seen \cup {chart.category \o <<"/">> \o chart.id},
          added |-> TRUE]

AddChart(st, cap, chart) ==
    IF chart.category \o <<"/">> \o chart.id \in st.seen
    THEN [result |-> st.result, seen |-> st.seen, added |-> FALSE]
    ELSE IF Truthy(cap) /\ Len(st.result) >= cap.v
    THEN [result |-> st.result, seen |-> st.seen, added |-> FALSE]
    ELSE [result |-> Append(st.result, chart),
          seen |-> st.seen \cup {chart.category \o <<"/">> \o chart.id},
          added |-> TRUE]

\* The loop that counts every chart it meets, added or not.
RECURSIVE AddEachCountsAll(_, _, _, _, _, _)
AddEachCountsAll(st, cap, list, max, count, capBreak) ==
    IF list = <<>> THEN st
    ELSE IF capBreak /\ Truthy(cap) /\ Len(st.result) >= cap.v THEN st
    ELSE IF ~max.none /\ count >= max.v THEN st
    ELSE AddEachCountsAll(AddChart(st, cap, Head(list)), cap, Tail(list), max, count + 1, capBreak)

\* The loop of a pattern or auto selector over its charts: stop at the
\* selector's max; an auto selector (capBreak) also stops at the section cap.
RECURSIVE AddEach(_, _, _, _, _, _)
AddEach(st, cap, list, max, count, capBreak) ==
    IF list = <<>> THEN st
    ELSE IF capBreak /\ Truthy(cap) /\ Len(st.result) >= cap.v THEN st
    ELSE IF ~max.none /\ count >= max.v THEN st
    ELSE LET r == AddChart(st, cap, Head(list))
         IN  AddEach(r, cap, Tail(list), max, IF r.added THEN count + 1 ELSE count, capBreak)

\* What json.loads makes of the mapping file, as records tagged with the JSON
\* type t: an object holds its (key, value) items in file order, or its
\* members as a function o; invalid stands for text json.loads rejects with
\* JSONDecodeError, nofile for a mapping_path that is None or does not exist.
JInvalid == [t |-> "invalid"]
JNoFile == [t |-> "nofile"]
JNull == [t |-> "null"]
JNum == [t |-> "num"]
JStr(s) == [t |-> "str", s |-> s]
JList(items) == [t |-> "list", items |-> items]
JObj(o) == [t |-> "obj", o |-> o]
JDoc(items) == [t |-> "obj", items |-> items]

\* _parse_selectors for one entry of raw_charts: a string is an explicit id,
\* a dict a selector, anything else is skipped.
ParseSelector(entry) ==
    IF entry.t = "str"
    THEN <<[id |-> entry.s, pattern |-> None, auto |-> FALSE, max |-> NoInt, sort |-> <<"i","d">>]>>
    ELSE IF entry.t = "obj"
    THEN <<[id |-> Get(entry.o, "id", None),
            pattern |-> Get(entry.o, "pattern", None),
            auto |-> Get(entry.o, "auto", FALSE),
            max |-> Get(entry.o, "max", NoInt),
            sort |-> Get(entry.o, "sort", <<"i","d">>)]>>
    ELSE <<>>

\* _parse_selectors
RECURSIVE ParseSelectors(_)
ParseSelectors(raw_charts) ==
    IF raw_charts = <<>> THEN <<>>
    ELSE ParseSelector(Head(raw_charts)) \o ParseSelectors(Tail(raw_charts))

\* raw_charts = mapping_data.get("charts", [])
RawCharts(mapping_data) == Get(mapping_data.o, "charts", JList(<<>>))

\* What "for entry in raw_charts" iterates over: the items of a list, the
\* characters of a string.
RawItems(raw_charts) ==
    IF raw_charts.t = "str"
    THEN [i \in 1..Len(raw_charts.s) |-> JStr(<<raw_charts.s[i]>>)]
    ELSE raw_charts.items

\* Whether the loop body of _load_static_mappings raises for this entry:
\* mapping_data.get on a value that is no dict (AttributeError), or iterating
\* a "charts" that is null or a number (TypeError).  Neither is caught.
EntryRaises(mapping_data) ==
    IF mapping_data.t # "obj" THEN TRUE
    ELSE RawCharts(mapping_data).t \in {"null", "num"}

\* self._static_mappings[section_id] = SectionMapping(...)
LoadEntry(mappings, section_id, mapping_data) ==
    LET m == [selectors |-> ParseSelectors(RawItems(RawCharts(mapping_data))),
              description |-> Get(mapping_data.o, "description", <<>>),
              max_charts |-> Get(mapping_data.o, "max_charts", NoInt)]
    IN  [k \in DOMAIN mappings \cup {section_id} |->
            IF k = section_id THEN m ELSE mappings[k]]

\* The loop of _load_static_mappings over data.items(), for items none of
\* which raises.
RECURSIVE LoadItems(_, _)
LoadItems(mappings, items) ==
    IF items = <<>> THEN mappings
    ELSE LoadItems(LoadEntry(mappings, Head(items).key, Head(items).value), Tail(items))

\* get_all_mappings(): section id -> mapping.charts (the explicit ids)
GetAllMappings(mappings) ==
    [k \in DOMAIN mappings |->
        SelectSeq([i \in 1..Len(mappings[k].selectors) |-> mappings[k].selectors[i].id],
                  LAMBDA x : x # None)]

\* The sections of the model, with the ids parse_outline gives them.
SectionOf(title, instructions) ==
    [id |-> slugify(title), title |-> title, instructions |-> instructions]

Sections ==
    {SectionOf(<<"E","m","i","s","s","i","o","n","s">>, <<"T","o","t","a","l"," ","b","y"," ","s","e","c","t","o","r">>),
     SectionOf(<<"T","r","a","n","s","p","o","r","t"," ","-"," ","F","l","e","e","t">>, <<>>)}

SectionIds == {s.id : s \in Sections}

LoaderIdle ==
    /\ mapFile = JNoFile
    /\ static_mappings = <<>>
    /\ ldIdx = 0
    /\ ldPc = "idle"

\* __init__ with no mapping file to read
LoadMissing ==
    /\ ldPc = "start"
    /\ mapFile.t = "nofile"
    /\ ldPc' = "done"
    /\ UNCHANGED <<mapFile, static_mappings, ldIdx>>
    /\ UNCHANGED <<outlineVars, catalogVars, mapperVars, slugVars, reviewVars, readerVars, stateVars, metaVars, sidecarVars>>

\* json.loads raises JSONDecodeError, which _load_static_mappings catches
LoadDecodeError ==
    /\ ldPc = "start"
    /\ mapFile.t = "invalid"
    /\ ldPc' = "done"
    /\ UNCHANGED <<mapFile, static_mappings, ldIdx>>
    /\ UNCHANGED <<outlineVars, catalogVars, mapperVars, slugVars, reviewVars, readerVars, stateVars, metaVars, sidecarVars>>

\* data.items() on a value that is no dict raises AttributeError, which
\* nothing catches: the constructor raises
LoadNotObject ==
    /\ ldPc = "start"
    /\ mapFile.t \notin {"nofile", "invalid", "obj"}
    /\ ldPc' = "raised"
    /\ UNCHANGED <<mapFile, static_mappings, ldIdx>>
    /\ UNCHANGED <<outlineVars, catalogVars, mapperVars, slugVars, reviewVars, readerVars, stateVars, metaVars, sidecarVars>>

\* One iteration of the loop over data.items()
LoadNextEntry ==
    /\ ldPc = "start"
    /\ mapFile.t = "obj"
    /\ ldIdx <= Len(mapFile.items)
    /\ ~EntryRaises(mapFile.items[ldIdx].value)
    /\ static_mappings' = LoadEntry(static_mappings, mapFile.items[ldIdx].key,
                                    mapFile.items[ldIdx].value)
    /\ ldIdx' = ldIdx + 1
    /\ UNCHANGED <<mapFile, ldPc>>
    /\ UNCHANGED <<outlineVars, catalogVars, mapperVars, slugVars, reviewVars, readerVars, stateVars, metaVars, sidecarVars>>

\* An iteration that raises: the constructor raises
LoadEntryRaises ==
    /\ ldPc = "start"
    /\ mapFile.t = "obj"
    /\ ldIdx <= Len(mapFile.items)
    /\ EntryRaises(mapFile.items[ldIdx].value)
    /\ ldPc' = "raised"
    /\ UNCHANGED <<mapFile, static_mappings, ldIdx>>
    /\ UNCHANGED <<outlineVars, catalogVars, mapperVars, slugVars, reviewVars, readerVars, stateVars, metaVars, sidecarVars>>

\* The loop is through: the constructor returns
LoadEnd ==
    /\ ldPc = "start"
    /\ mapFile.t = "obj"
    /\ ldIdx > Len(mapFile.items)
    /\ ldPc' = "done"
    /\ UNCHANGED <<mapFile, static_mappings, ldIdx>>
    /\ UNCHANGED <<outlineVars, catalogVars, mapperVars, slugVars, reviewVars, readerVars, stateVars, metaVars, sidecarVars>>

NoSection == [id |-> None, title |-> None, instructions |-> None]

NoCall == [kind |-> "none", section |-> NoSection]

MapperIdle ==
    /\ call = NoCall
    /\ selIdx = 0
    /\ result = <<>>
    /\ seen = {}
    /\ ret = <<>>
    /\ mpc = "idle"

\* A test that takes an entry with no selector for no entry at all.
HasMappingWithSelectors(mappings, section_id) ==
    section_id \in DOMAIN mappings /\ mappings[section_id].selectors # <<>>

\* section_id in self._static_mappings
HasMapping(mappings, section_id) == section_id \in DOMAIN mappings

\* The auto-matcher as the call in progress uses it: with the Section's
\* context in get_charts_for_section_obj, with the id alone in
\* get_charts_for_section.
AutoMap(chartsNow, c) ==
    IF c.kind = "obj" THEN AutoMapSectionWithContext(chartsNow, c.section)
    ELSE AutoMapSection(chartsNow, c.section.id)

\* mapping.max_charts and len(result) >= mapping.max_charts
CapReached(cap, list) == Truthy(cap) /\ Len(list) >= cap.v

\* get_charts_for_section(section_id)
GetChartsForSection ==
    /\ mpc = "idle"
    /\ ldPc = "done"
    /\ \E s \in Sections :
          /\ call' = [kind |-> "id", section |-> s]
          /\ IF HasMapping(static_mappings, s.id)
             THEN /\ mpc' = "resolve"
                  /\ selIdx' = 1
                  /\ ret' = <<>>
             ELSE /\ mpc' = "done"
                  /\ selIdx' = 0
                  /\ ret' = AutoMapSection(charts, s.id)
    /\ result' = <<>>
    /\ seen' = {}
    /\ UNCHANGED <<outlineVars, catalogVars, loaderVars, slugVars, reviewVars, readerVars, stateVars, metaVars, sidecarVars>>

\* get_charts_for_section_obj(section)
GetChartsForSectionObj ==
    /\ mpc = "idle"
    /\ ldPc = "done"
    /\ \E s \in Sections :
          /\ call' = [kind |-> "obj", section |-> s]
          /\ IF HasMapping(static_mappings, s.id)
             THEN /\ mpc' = "resolve"
                  /\ selIdx' = 1
                  /\ ret' = <<>>
             ELSE /\ mpc' = "done"
                  /\ selIdx' = 0
                  /\ ret' = AutoMapSectionWithContext(charts, s)
    /\ result' = <<>>
    /\ seen' = {}
    /\ UNCHANGED <<outlineVars, catalogVars, loaderVars, slugVars, reviewVars, readerVars, stateVars, metaVars, sidecarVars>>

\* The mapping and the selector the loop of _resolve_configured_charts is at.
Mapping == static_mappings[call.section.id]
Selector == Mapping.selectors[selIdx]

\* The loop goes on to its next selector.
AtSelector ==
    /\ mpc = "resolve"
    /\ selIdx <= Len(Mapping.selectors)
    /\ ~CapReached(Mapping.max_charts, result)

\* if sel.id: an explicit id, added if the catalog holds it
SelectExplicit ==
    /\ AtSelector
    /\ TruthyStr(Selector.id)
    /\ LET chart == LookupChart(charts, Selector.id)
           r == IF chart # NoChart
                THEN AddChart([result |-> result, seen |-> seen], Mapping.max_charts, chart)
                ELSE [result |-> result, seen |-> seen, added |-> FALSE]
       IN  /\ result' = r.result
           /\ seen' = r.seen
    /\ selIdx' = selIdx + 1
    /\ UNCHANGED <<call, ret, mpc>>
    /\ UNCHANGED <<outlineVars, catalogVars, loaderVars, slugVars, reviewVars, readerVars, stateVars, metaVars, sidecarVars>>

\* elif sel.pattern: the sorted matches, up to the selector's max
SelectPattern ==
    /\ AtSelector
    /\ ~TruthyStr(Selector.id)
    /\ TruthyStr(Selector.pattern)
    /\ LET r == AddEach([result |-> result, seen |-> seen], Mapping.max_charts,
                        SortedMatches(charts, Selector), Selector.max, 0, FALSE)
       IN  /\ result' = r.result
           /\ seen' = r.seen
    /\ selIdx' = selIdx + 1
    /\ UNCHANGED <<call, ret, mpc>>
    /\ UNCHANGED <<outlineVars, catalogVars, loaderVars, slugVars, reviewVars, readerVars, stateVars, metaVars, sidecarVars>>

\* elif sel.auto: the auto-matcher's charts, up to the selector's max
SelectAuto ==
    /\ AtSelector
    /\ ~TruthyStr(Selector.id)
    /\ ~TruthyStr(Selector.pattern)
    /\ Selector.auto
    /\ LET r == AddEach([result |-> result, seen |-> seen], Mapping.max_charts,
                        AutoMap(charts, call), Selector.max, 0, TRUE)
       IN  /\ result' = r.result
           /\ seen' = r.seen
    /\ selIdx' = selIdx + 1
    /\ UNCHANGED <<call, ret, mpc>>
    /\ UNCHANGED <<outlineVars, catalogVars, loaderVars, slugVars, reviewVars, readerVars, stateVars, metaVars, sidecarVars>>

\* A selector with no id, no pattern and no auto adds nothing
SelectNothing ==
    /\ AtSelector
    /\ ~TruthyStr(Selector.id)
    /\ ~TruthyStr(Selector.pattern)
    /\ ~Selector.auto
    /\ selIdx' = selIdx + 1
    /\ UNCHANGED <<call, result, seen, ret, mpc>>
    /\ UNCHANGED <<outlineVars, catalogVars, loaderVars, slugVars, reviewVars, readerVars, stateVars, metaVars, sidecarVars>>

\* break at the section cap, then return result
ResolveBreak ==
    /\ mpc = "resolve"
    /\ selIdx <= Len(Mapping.selectors)
    /\ CapReached(Mapping.max_charts, result)
    /\ ret' = result
    /\ mpc' = "done"
    /\ UNCHANGED <<call, selIdx, result, seen>>
    /\ UNCHANGED <<outlineVars, catalogVars, loaderVars, slugVars, reviewVars, readerVars, stateVars, metaVars, sidecarVars>>

\* The selectors are through: return result
ResolveEnd ==
    /\ mpc = "resolve"
    /\ selIdx > Len(Mapping.selectors)
    /\ ret' = result
    /\ mpc' = "done"
    /\ UNCHANGED <<call, selIdx, result, seen>>
    /\ UNCHANGED <<outlineVars, catalogVars, loaderVars, slugVars, reviewVars, readerVars, stateVars, metaVars, sidecarVars>>

\* The caller has the list; the mapper is ready for its next call.
CallReturns ==
    /\ mpc = "done"
    /\ call' = NoCall
    /\ selIdx' = 0
    /\ result' = <<>>
    /\ seen' = {}
    /\ ret' = <<>>
    /\ mpc' = "idle"
    /\ UNCHANGED <<outlineVars, catalogVars, loaderVars, slugVars, reviewVars, readerVars, stateVars, metaVars, sidecarVars>>

(***************************************************************************)
(* The mapping files and catalogs of the model                             *)
(***************************************************************************)

\* Entries of a "charts" list: two explicit ids (one in category/id form),
\* an id no chart has, a pattern with max and sort, an auto selector with
\* max and a selector object with no key; an id under a category its chart
\* is not in, an id with a category that no chart has, and a pattern with
\* max and no sort.
RawSelectors ==
    {JStr(<<"t","o","t","a","l","_","e","m","i","s","s","i","o","n","s">>),
     JStr(<<"e","m","i","s","s","i","o","n","s","/","e","m","i","s","s","i","o","n","s","_","b","y","_","s","e","c","t","o","r">>),
     JStr(<<"m","i","s","s","i","n","g">>),
     JObj([pattern |-> <<"*","e","m","i","s","s","i","o","n","s","*">>, max |-> SomeInt(1), sort |-> <<"t","i","t","l","e">>]),
     JObj([auto |-> TRUE, max |-> SomeInt(2)]),
     JObj(<<>>),
     JStr(<<"i","n","d","u","s","t","r","y","/","e","m","i","s","s","i","o","n","s","_","p","o","w","e","r">>),
     JStr(<<"e","m","i","s","s","i","o","n","s","/","m","i","s","s","i","n","g">>),
     JObj([pattern |-> <<"*","e","m","i","s","s","i","o","n","s","*">>, max |-> SomeInt(2)])}

MaxSelectors == 2

\* The values of "max_charts": absent, 0, 1 and 2.
Caps == {NoInt, SomeInt(0), SomeInt(1), SomeInt(2)}

MapperEntries ==
    {JObj([charts |-> JList(sels), max_charts |-> cap]) :
        sels \in SeqsUpTo(RawSelectors, MaxSelectors), cap \in Caps}

\* Mapping files with no entry or with one entry for a section of the model.
MapperDocs ==
    {JDoc(<<>>)} \cup
    {JDoc(<<[key |-> sid, value |-> e]>>) : sid \in SectionIds, e \in MapperEntries}

\* The chart files of the catalogs of the model: six charts that match the
\* emissions section (three of them with equal scores), charts of the
\* transport section, and one id that two category folders hold.
MapperFiles ==
    {[dir |-> <<"e","m","i","s","s","i","o","n","s">>, name |-> <<"t","o","t","a","l","_","e","m","i","s","s","i","o","n","s",".","c","s","v">>],
     [dir |-> <<"e","m","i","s","s","i","o","n","s">>, name |-> <<"e","m","i","s","s","i","o","n","s","_","b","y","_","s","e","c","t","o","r",".","c","s","v">>],
     [dir |-> <<"t","r","a","n","s","p","o","r","t">>, name |-> <<"v","e","h","i","c","l","e","_","f","l","e","e","t",".","c","s","v">>],
     [dir |-> <<"t","r","a","n","s","p","o","r","t">>, name |-> <<"e","m","i","s","s","i","o","n","s","_","t","r","a","n","s","p","o","r","t",".","c","s","v">>],
     [dir |-> <<"t","r","a","n","s","p","o","r","t">>, name |-> <<"t","o","t","a","l","_","e","m","i","s","s","i","o","n","s",".","c","s","v">>],
     [dir |-> <<"e","l","e","c","t","r","i","c","i","t","y">>, name |-> <<"e","m","i","s","s","i","o","n","s","_","p","o","w","e","r",".","c","s","v">>],
     [dir |-> <<"i","n","d","u","s","t","r","y">>, name |-> <<"t","o","t","a","l","_","e","n","e","r","g","y",".","c","s","v">>],
     [dir |-> <<"i","n","d","u","s","t","r","y">>, name |-> <<"e","m","i","s","s","i","o","n","s","_","i","n","d","u","s","t","r","y",".","c","s","v">>]}

\* The data roots: every chart file, the files outside the transport folder,
\* the files of the transport folder, and none.
MapperDisks ==
    {[exists |-> TRUE, dirs |-> {f.dir : f \in F}, files |-> F] :
        F \in {MapperFiles,
                {f \in MapperFiles : f.dir # <<"t","r","a","n","s","p","o","r","t">>},
                {f \in MapperFiles : f.dir = <<"t","r","a","n","s","p","o","r","t">>},
                {}}}

\* The loop of _scan_charts over the category folders.
RECURSIVE ScanAll(_, _, _, _)
ScanAll(chartsNow, files, specs, folders) ==
    IF folders = <<>> THEN chartsNow
    ELSE ScanAll(ScanCategory(chartsNow, files, specs, Head(folders)), files, specs,
                 Tail(folders))

\* The mapping files _load_static_mappings is run on: no file, text that is
\* not JSON, JSON that is no object, and objects of up to MaxEntries entries,
\* each a mapping (legacy list, selector objects, no key at all) or a value
\* that is no mapping (a string, a list, an object whose "charts" is null or
\* a string).
LoaderEntries ==
    {JObj([charts |-> JList(<<JStr(<<"t","o","t","a","l","_","e","m","i","s","s","i","o","n","s">>), JNum>>)]),
     JObj([charts |-> JList(<<JObj([id |-> <<"m","i","s","s","i","n","g">>]), JObj([auto |-> TRUE])>>),
           max_charts |-> SomeInt(2), description |-> <<"x">>]),
     JObj(<<>>),
     JStr(<<"t","o","t","a","l","_","e","m","i","s","s","i","o","n","s">>),
     JList(<<>>),
     JObj([charts |-> JNull]),
     JObj([charts |-> JStr(<<"a","b">>)])}

MaxEntries == 2

LoaderDocs ==
    {JNoFile, JInvalid, JNull, JNum, JStr(<<"x">>), JList(<<>>)} \cup
    {JDoc(items) : items \in
        {its \in SeqsUpTo([key : SectionIds, value : LoaderEntries], MaxEntries) :
            \A i, j \in 1..Len(its) : its[i].key = its[j].key => i = j}}

(***************************************************************************)
(* slugify on its own result                                               *)
(***************************************************************************)

SlugIdle ==
    /\ slugIn = <<>>
    /\ slugOut = None
    /\ slugAgain = None
    /\ slugPc = "idle"

\* The titles of the model: upper and lower case letters, a digit, hyphen,
\* underscore, white space and punctuation, in every order.
TitleChars == {"A", "b", "1", "-", "_", " ", "\t", "!"}

MaxTitle == 4

Titles == SeqsUpTo(TitleChars, MaxTitle)

\* slug = slugify(title)
Slugify ==
    /\ slugPc = "start"
    /\ slugOut' = slugify(slugIn)
    /\ slugPc' = "once"
    /\ UNCHANGED <<slugIn, slugAgain>>
    /\ UNCHANGED <<outlineVars, catalogVars, loaderVars, mapperVars, reviewVars, readerVars, stateVars, metaVars, sidecarVars>>

\* slugify(slug)
SlugifyAgain ==
    /\ slugPc = "once"
    /\ slugAgain' = slugify(slugOut)
    /\ slugPc' = "twice"
    /\ UNCHANGED <<slugIn, slugOut>>
    /\ UNCHANGED <<outlineVars, catalogVars, loaderVars, mapperVars, reviewVars, readerVars, stateVars, metaVars, sidecarVars>>

(***************************************************************************)
(* parse_review_block                                                      *)
(***************************************************************************)

\* str.startswith(prefix)
StartsWith(s, prefix) == IsPrefix(prefix, s)

\* str.split(sep) for a one-character sep: the pieces between the
\* separators, the empty ones too.
RECURSIVE Split(_, _)
Split(s, sep) ==
    LET at == {i \in 1..Len(s) : s[i] = sep}
    IN  IF at = {} THEN <<s>>
        ELSE <<SubSeq(s, 1, SetMin(at) - 1)>> \o Split(SubSeq(s, SetMin(at) + 1, Len(s)), sep)

\* Whether int(value) returns for a stripped string: an optional sign, then
\* digits, with single underscores allowed between digits.  Otherwise it
\* raises ValueError.
IsInt(value) ==
    LET body == IF value # <<>> /\ value[1] \in {"+", "-"} THEN Tail(value) ELSE value
    IN  /\ body # <<>>
        /\ \A i \in 1..Len(body) :
              \/ body[i] \in Digits
              \/ /\ body[i] = "_"
                 /\ 1 < i
                 /\ i < Len(body)
                 /\ body[i - 1] \in Digits
                 /\ body[i + 1] \in Digits

RECURSIVE DigitsValue(_)
DigitsValue(ds) ==
    IF ds = <<>> THEN 0
    ELSE 10 * DigitsValue(SubSeq(ds, 1, Len(ds) - 1)) + (Ord[ds[Len(ds)]] - Ord["0"])

\* int(value), for a value with IsInt(value)
IntOf(value) ==
    LET n == DigitsValue(SelectSeq(value, LAMBDA c : c \in Digits))
    IN  IF value[1] = "-" THEN 0 - n ELSE n

\* The body of the loop over rating_part.split(","), lines 53-61.
AddPair(r, rawPair) ==
    LET pair == Strip(rawPair, Space)
    IN  IF "=" \notin Range(pair) THEN r
        ELSE LET eq == SetMin({i \in 1..Len(pair) : pair[i] = "="})
                 key == SubSeq(pair, 1, eq - 1)
                 value == Strip(SubSeq(pair, eq + 1, Len(pair)), Space)
             IN  IF value # <<>> /\ IsInt(value)
                 THEN DictSet(r, Strip(key, Space), IntOf(value))
                 ELSE r

\* The loop with a key that is set once and never overwritten.
RECURSIVE AddPairsFirstWins(_, _)
AddPairsFirstWins(r, pairs) ==
    IF pairs = <<>> THEN r
    ELSE AddPairsFirstWins(IF DictKeys(AddPair(r, Head(pairs))) = DictKeys(r)
                           THEN r
                           ELSE AddPair(r, Head(pairs)),
                           Tail(pairs))

\* for pair in rating_part.split(","), lines 52-61
RECURSIVE AddPairs(_, _)
AddPairs(r, pairs) ==
    IF pairs = <<>> THEN r
    ELSE AddPairs(AddPair(r, Head(pairs)), Tail(pairs))

\* The sentinel of line 45.
SentinelPrefix == <<"[","E","X","A","M","P","L","E"," ","-"," ","L","L","M"," ","I","G","N","O","R","E",":">>

\* A parser that knows no sentinel.
IsSentinelNever(line_stripped) == FALSE

\* if line_stripped.startswith("[EXAMPLE - LLM IGNORE:"): break
IsSentinel(line_stripped) == StartsWith(line_stripped, SentinelPrefix)

\* The branches with the test of notes_started first: after a NOTES: line
\* every line is a line of the notes.
BranchNotesFirst(line_stripped, started) ==
    IF started THEN "more"
    ELSE IF StartsWith(line_stripped, <<"A","U","T","H","O","R",":">>) THEN "author"
    ELSE IF StartsWith(line_stripped, <<"R","A","T","I","N","G",":">>) THEN "rating"
    ELSE IF StartsWith(line_stripped, <<"N","O","T","E","S",":">>) THEN "notes"
    ELSE "skip"

\* Which branch of lines 48-68 a stripped line takes.
Branch(line_stripped, started) ==
    IF StartsWith(line_stripped, <<"A","U","T","H","O","R",":">>) THEN "author"
    ELSE IF StartsWith(line_stripped, <<"R","A","T","I","N","G",":">>) THEN "rating"
    ELSE IF StartsWith(line_stripped, <<"N","O","T","E","S",":">>) THEN "notes"
    ELSE IF started THEN "more"
    ELSE "skip"

\* One iteration of the loop of lines 42-68 on a line that is no sentinel;
\* st holds the locals author, ratings, notes_started and notes_lines.
ReviewStep(st, line) ==
    LET ls == Strip(line, Space)
        b == Branch(ls, st.notes_started)
        rest(n) == Strip(SubSeq(ls, n + 1, Len(ls)), Space)
    IN  IF b = "author" THEN [st EXCEPT !.author = rest(7)]
        ELSE IF b = "rating"
        THEN [st EXCEPT !.ratings = AddPairs(st.ratings, Split(rest(7), ","))]
        ELSE IF b = "notes"
        THEN [st EXCEPT !.notes_started = TRUE,
                        !.notes_lines = IF rest(6) # <<>> THEN Append(@, rest(6)) ELSE @]
        ELSE IF b = "more" THEN [st EXCEPT !.notes_lines = Append(@, ls)]
        ELSE st

\* lines 70-71: the tuple returned, as a record
ReviewResult(st) ==
    [author |-> st.author, ratings |-> st.ratings,
     notes |-> Strip(JoinLines(st.notes_lines), Space)]

\* The locals before the loop, lines 34-40.
ReviewStart == [author |-> <<>>, ratings |-> <<>>, notes_started |-> FALSE, notes_lines |-> <<>>]

\* The loop of lines 42-68 run to its end or to its break.
RECURSIVE ReviewLoop(_, _)
ReviewLoop(st, ls) ==
    IF ls = <<>> \/ IsSentinel(Strip(Head(ls), Space)) THEN st
    ELSE ReviewLoop(ReviewStep(st, Head(ls)), Tail(ls))

\* parse_review_block(text)
ParseReviewBlock(text) ==
    IF Strip(text, Space) = <<>> THEN ReviewResult(ReviewStart)
    ELSE ReviewResult(ReviewLoop(ReviewStart, Split(Strip(text, Space), "\n")))

ReviewIdle ==
    /\ reviewText = <<>>
    /\ reviewLines = <<>>
    /\ lineIdx = 0
    /\ author = <<>>
    /\ ratings = <<>>
    /\ notes_started = FALSE
    /\ notes_lines = <<>>
    /\ reviewRet = None
    /\ rpc = "idle"

\* The lines of the model's review blocks: the three keywords with and
\* without text, ratings with values that are integers, empty, signed, not
\* integers, repeated keys and pairs without "=", free text, an empty line
\* and the sentinel at the start of a line and indented.
ReviewLineTexts ==
    {<<"A","U","T","H","O","R",":"," ","A","l">>,
     <<"A","U","T","H","O","R",":">>,
     <<"R","A","T","I","N","G",":"," ","a","=","1",","," ","b","=","x",","," ","a","=","2">>,
     <<"R","A","T","I","N","G",":"," ","b","=",","," ","c","=","-","3",",","d">>,
     <<" ","R","A","T","I","N","G",":","a","=","1","=","2",","," ","=","4",",","b"," ","="," ","5"," ">>,
     <<"N","O","T","E","S",":"," ","n","1">>,
     <<"N","O","T","E","S",":">>,
     <<"m","o","r","e"," ">>,
     <<>>,
     <<"[","E","X","A","M","P","L","E"," ","-"," ","L","L","M"," ","I","G","N","O","R","E",":"," ","x">>,
     <<" "," ","[","E","X","A","M","P","L","E"," ","-"," ","L","L","M"," ","I","G","N","O","R","E",":">>}

MaxReviewLines == 3

ReviewTexts == {JoinLines(ls) : ls \in SeqsUpTo(ReviewLineTexts, MaxReviewLines)}

\* The locals of the loop, as ReviewStep takes them.
ReviewLocals ==
    [author |-> author, ratings |-> ratings, notes_started |-> notes_started,
     notes_lines |-> notes_lines]

\* The line the loop is at, stripped.
LineStripped == Strip(reviewLines[lineIdx], Space)

\* The loop is at a line that is no sentinel and takes branch b.
AtReviewLine(b) ==
    /\ rpc = "loop"
    /\ lineIdx <= Len(reviewLines)
    /\ ~IsSentinel(LineStripped)
    /\ Branch(LineStripped, notes_started) = b

\* The iteration itself.
ReviewIterate ==
    LET st == ReviewStep(ReviewLocals, reviewLines[lineIdx])
    IN  /\ author' = st.author
        /\ ratings' = st.ratings
        /\ notes_started' = st.notes_started
        /\ notes_lines' = st.notes_lines
        /\ lineIdx' = lineIdx + 1
        /\ UNCHANGED <<reviewText, reviewLines, reviewRet, rpc>>
        /\ UNCHANGED <<outlineVars, catalogVars, loaderVars, mapperVars, slugVars, readerVars, stateVars, metaVars, sidecarVars>>

\* if not text or not text.strip(): return "", {}, ""
ReviewEmpty ==
    /\ rpc = "start"
    /\ Strip(reviewText, Space) = <<>>
    /\ reviewRet' = ReviewResult(ReviewStart)
    /\ rpc' = "done"
    /\ UNCHANGED <<reviewText, reviewLines, lineIdx, author, ratings, notes_started, notes_lines>>
    /\ UNCHANGED <<outlineVars, catalogVars, loaderVars, mapperVars, slugVars, readerVars, stateVars, metaVars, sidecarVars>>

\* lines 34-40
ReviewSplit ==
    /\ rpc = "start"
    /\ Strip(reviewText, Space) # <<>>
    /\ reviewLines' = Split(Strip(reviewText, Space), "\n")
    /\ lineIdx' = 1
    /\ author' = ReviewStart.author
    /\ ratings' = ReviewStart.ratings
    /\ notes_started' = ReviewStart.notes_started
    /\ notes_lines' = ReviewStart.notes_lines
    /\ rpc' = "loop"
    /\ UNCHANGED <<reviewText, reviewRet>>
    /\ UNCHANGED <<outlineVars, catalogVars, loaderVars, mapperVars, slugVars, readerVars, stateVars, metaVars, sidecarVars>>

\* break at the sentinel
ReviewSentinel ==
    /\ rpc = "loop"
    /\ lineIdx <= Len(reviewLines)
    /\ IsSentinel(LineStripped)
    /\ rpc' = "join"
    /\ UNCHANGED <<reviewText, reviewLines, lineIdx, author, ratings, notes_started, notes_lines,
                   reviewRet>>
    /\ UNCHANGED <<outlineVars, catalogVars, loaderVars, mapperVars, slugVars, readerVars, stateVars, metaVars, sidecarVars>>

\* An AUTHOR: line
ReviewAuthor == AtReviewLine("author") /\ ReviewIterate

\* A RATING: line
ReviewRating == AtReviewLine("rating") /\ ReviewIterate

\* A NOTES: line
ReviewNotes == AtReviewLine("notes") /\ ReviewIterate

\* A line after a NOTES: line
ReviewNotesLine == AtReviewLine("more") /\ ReviewIterate

\* A line no branch takes
ReviewSkip == AtReviewLine("skip") /\ ReviewIterate

\* lines 70-71, after the loop has ended or was left
ReviewReturn ==
    /\ \/ rpc = "join"
       \/ (rpc = "loop" /\ lineIdx > Len(reviewLines))
    /\ reviewRet' = ReviewResult(ReviewLocals)
    /\ rpc' = "done"
    /\ UNCHANGED <<reviewText, reviewLines, lineIdx, author, ratings, notes_started, notes_lines>>
    /\ UNCHANGED <<outlineVars, catalogVars, loaderVars, mapperVars, slugVars, readerVars, stateVars, metaVars, sidecarVars>>

(***************************************************************************)
(* chart_reader.py                                                         *)
(*                                                                         *)
(* A frame is [obj, columns, rows]: obj tells one DataFrame object from    *)
(* another, columns are the header names, a row holds one cell per column. *)
(* A cell is a string or a number; numbers are kept in thousandths, so     *)
(* that the rounding of the code (round(x, 2), :.2f, :.1f) has digits to   *)
(* round away.                                                             *)
(***************************************************************************)

TextCell(s) == [t |-> "str", s |-> s]
NumCell(n) == [t |-> "num", n |-> n]

\* An empty field of the CSV file (NaN in the frame).
NullCell == [t |-> "nan"]

\* An optional list, None when absent.
NoList == [none |-> TRUE, v |-> <<>>]
SomeList(l) == [none |-> FALSE, v |-> l]

\* n / d rounded to the nearest integer, halves to the even one (d > 0).
RoundDiv(n, d) ==
    LET q == n \div d
        r == n % d
    IN  IF 2 * r < d THEN q
        ELSE IF 2 * r > d THEN q + 1
        ELSE IF q % 2 = 0 THEN q ELSE q + 1

\* round(x, 2) and format(x, ".2f") for x in thousandths: the result is in
\* thousandths too.
Round2(x) == 10 * RoundDiv(x, 10)

Abs(x) == IF x < 0 THEN 0 - x ELSE x

RECURSIVE SumSeq(_)
SumSeq(s) == IF s = <<>> THEN 0 ELSE Head(s) + SumSeq(Tail(s))

\* "name" in df.columns, and the position of the column
HasCol(frame, name) == \E i \in 1..Len(frame.columns) : frame.columns[i] = name

ColIdx(frame, name) == CHOOSE i \in 1..Len(frame.columns) : frame.columns[i] = name

\* The digit-named columns whatever their value.
YearColsAnyValue(frame) ==
    SelectSeq(frame.columns,
              LAMBDA c : c # <<>> /\ \A i \in 1..Len(c) : c[i] \in Digits)

\* c.isdigit() and 2000 <= int(c) <= 2100, in column order
YearCols(frame) ==
    SelectSeq(frame.columns,
              LAMBDA c : /\ c # <<>>
                         /\ \A i \in 1..Len(c) : c[i] \in Digits
                         /\ 2000 <= DigitsValue(c)
                         /\ DigitsValue(c) <= 2100)

\* min(year_cols, key=int) and max(year_cols, key=int): the first of the
\* columns with the least (greatest) value.
FirstYear(year_cols) ==
    year_cols[SetMin({i \in 1..Len(year_cols) :
                         \A j \in 1..Len(year_cols) :
                             DigitsValue(year_cols[i]) <= DigitsValue(year_cols[j])})]

LastYear(year_cols) ==
    year_cols[SetMin({i \in 1..Len(year_cols) :
                         \A j \in 1..Len(year_cols) :
                             DigitsValue(year_cols[i]) >= DigitsValue(year_cols[j])})]

\* _extract_scenarios: the sorted distinct values of the scen column that
\* are not null
ExtractScenarios(frame) ==
    IF HasCol(frame, <<"s","c","e","n">>)
    THEN SortStrings({frame.rows[i][ColIdx(frame, <<"s","c","e","n">>)].s :
                         i \in {j \in 1..Len(frame.rows) :
                                   frame.rows[j][ColIdx(frame, <<"s","c","e","n">>)].t = "str"}})
    ELSE <<>>

\* df[df["scen"] == scenario]: the indices of the rows kept, in frame order
ScenRows(frame, scenario) ==
    SelectSeq([i \in 1..Len(frame.rows) |-> i],
              LAMBDA i : frame.rows[i][ColIdx(frame, <<"s","c","e","n">>)] = TextCell(scenario))

\* "Net" matched with its case as written.
ContainsNetAsWritten(cell) == cell.t = "str" /\ IsSubstring(<<"N", "e", "t">>, cell.s)

\* .astype(str).str.contains("Net", case=False, na=False) on a cell of the
\* first column (the text of a number holds no "net").
ContainsNet(cell) == cell.t = "str" /\ IsSubstring(<<"n", "e", "t">>, Lower(cell.s))

\* The rows among idxs that are (are not) baseline rows, in order.
BaselineRows(frame, idxs) == SelectSeq(idxs, LAMBDA i : ContainsNet(frame.rows[i][1]))

NonBaselineRows(frame, idxs) == SelectSeq(idxs, LAMBDA i : ~ContainsNet(frame.rows[i][1]))

\* The val of a row, and column[...].sum() over rows.
Val(frame, i) == frame.rows[i][ColIdx(frame, <<"v","a","l">>)].n

SumCol(frame, idxs, name) ==
    SumSeq([k \in 1..Len(idxs) |-> frame.rows[idxs[k]][ColIdx(frame, name)].n])

\* The orders sort_values("val") can leave the rows in: ascending val, rows
\* of equal val in any order (the default sort is not stable).
RECURSIVE SortedOrders(_, _)
SortedOrders(frame, S) ==
    IF S = {} THEN {<<>>}
    ELSE UNION {{<<m>> \o t : t \in SortedOrders(frame, S \ {m})} :
                    m \in {x \in S : \A y \in S : Val(frame, x) <= Val(frame, y)}}

\* {"sector": row[dim_col], "value": round(float(row["val"]), 2)}
SectorValue(frame, i) == [sector |-> frame.rows[i][1], value |-> Round2(Val(frame, i))]

\* head(3)
Head3(s) == SubSeq(s, 1, IF Len(s) < 3 THEN Len(s) ELSE 3)

\* The result of _compute_scenario_summary with no key set.
EmptySummary ==
    [baseline |-> NoInt, total_reduction |-> NoInt, top_reductions |-> NoList,
     notable_increases |-> NoList, start_year |-> NoInt, end_year |-> NoInt,
     start_value |-> NoInt, end_value |-> NoInt, percent_change |-> NoInt]

\* sorted_df[sorted_df["val"] < 0] without head(3).
ReductionsAll(frame, sorted) == SelectSeq(sorted, LAMBDA i : Val(frame, i) < 0)

\* sorted_df[sorted_df["val"] < 0].head(3)
Reductions(frame, sorted) == Head3(SelectSeq(sorted, LAMBDA i : Val(frame, i) < 0))

\* _compute_scenario_summary(df, scenario); sorted is non_baseline in the
\* order sort_values left it in.
ComputeScenarioSummary(frame, scenario, sorted) ==
    IF ~HasCol(frame, <<"s","c","e","n">>) THEN EmptySummary
    ELSE
    LET scen_df == ScenRows(frame, scenario)
        baseline_row == BaselineRows(frame, scen_df)
        non_baseline == NonBaselineRows(frame, scen_df)
        reductions == Reductions(frame, sorted)
        increases == SelectSeq(sorted, LAMBDA i : Val(frame, i) > 0)
        year_cols == YearCols(frame)
        start_total == SumCol(frame, scen_df, FirstYear(year_cols))
        end_total == SumCol(frame, scen_df, LastYear(year_cols))
    IN  IF HasCol(frame, <<"v","a","l">>)
        THEN [EmptySummary EXCEPT
                !.baseline = IF baseline_row # <<>>
                             THEN SomeInt(Val(frame, baseline_row[1])) ELSE NoInt,
                !.total_reduction =
                    IF non_baseline # <<>>
                    THEN SomeInt(Round2(SumCol(frame, non_baseline, <<"v","a","l">>))) ELSE NoInt,
                !.top_reductions =
                    IF non_baseline # <<>>
                    THEN SomeList([k \in 1..Len(reductions) |-> SectorValue(frame, reductions[k])])
                    ELSE NoList,
                !.notable_increases =
                    IF non_baseline # <<>>
                    THEN SomeList([k \in 1..Len(increases) |-> SectorValue(frame, increases[k])])
                    ELSE NoList]
        ELSE IF year_cols # <<>>
        THEN [EmptySummary EXCEPT
                !.start_year = SomeInt(DigitsValue(FirstYear(year_cols))),
                !.end_year = SomeInt(DigitsValue(LastYear(year_cols))),
                !.start_value = SomeInt(Round2(start_total)),
                !.end_value = SomeInt(Round2(end_total)),
                !.percent_change =
                    IF start_total # 0
                    THEN SomeInt(RoundDiv((end_total - start_total) * 1000, Abs(start_total)))
                    ELSE NoInt]
        ELSE EmptySummary

\* sorted(...) of a set of integers
RECURSIVE SortInts(_)
SortInts(S) == IF S = {} THEN <<>> ELSE <<SetMin(S)>> \o SortInts(S \ {SetMin(S)})

\* int(y) of a number in thousandths: the integer part, towards zero
IntPart(x) == IF x < 0 THEN 0 - ((0 - x) \div 1000) ELSE x \div 1000

\* sorted(int(y) for y in values) for a set of numbers in thousandths: two
\* values of one integer part give that integer twice.
RECURSIVE SortedIntParts(_)
SortedIntParts(S) ==
    IF S = {} THEN <<>> ELSE <<IntPart(SetMin(S))>> \o SortedIntParts(S \ {SetMin(S)})

\* _extract_years
ExtractYears(frame) ==
    IF HasCol(frame, <<"y","e","a","r">>)
    THEN SortedIntParts({frame.rows[i][ColIdx(frame, <<"y","e","a","r">>)].n :
                            i \in {j \in 1..Len(frame.rows) :
                                      frame.rows[j][ColIdx(frame, <<"y","e","a","r">>)].t = "num"}})
    ELSE SortInts({DigitsValue(c) : c \in Range(YearCols(frame))})

\* _detect_dimensions: the dimensions of the plot spec that are columns;
\* without any, the columns outside skip_cols that hold text which is no
\* number (every text cell of the model is such text).
DetectDimensions(frame, chart) ==
    IF chart.dimensions # <<>>
    THEN SelectSeq(chart.dimensions, LAMBDA d : HasCol(frame, d))
    ELSE SelectSeq(frame.columns,
                   LAMBDA c : /\ c \notin {<<"s","c","e","n">>, <<"y","e","a","r">>, <<"v","a","l">>, <<"u","n","i","t">>, <<"u","n","i","t","s">>, <<"m","e","a","s","u","r","e">>}
                              /\ \E i \in 1..Len(frame.rows) :
                                     frame.rows[i][ColIdx(frame, c)].t = "str")

\* The columns select_dtypes(include=["number"]) keeps.
NumericCols(frame) ==
    SelectSeq(frame.columns,
              LAMBDA c : /\ frame.rows # <<>>
                         /\ \A i \in 1..Len(frame.rows) :
                                frame.rows[i][ColIdx(frame, c)].t = "num")

\* _detect_measure
DetectMeasure(frame) ==
    IF HasCol(frame, <<"v","a","l">>) THEN <<"v","a","l">>
    ELSE IF YearCols(frame) # <<>> THEN <<"y","e","a","r","_","v","a","l","u","e","s">>
    ELSE IF NumericCols(frame) # <<>> THEN NumericCols(frame)[1]
    ELSE <<"v","a","l">>

\* unique(): the values of a sequence in order of first appearance
RECURSIVE Unique(_)
Unique(s) ==
    IF s = <<>> THEN <<>>
    ELSE LET front == Unique(SubSeq(s, 1, Len(s) - 1))
         IN  IF s[Len(s)] \in Range(front) THEN front ELSE Append(front, s[Len(s)])

\* ", ".join(parts)
RECURSIVE JoinComma(_)
JoinComma(parts) ==
    IF parts = <<>> THEN <<>>
    ELSE IF Len(parts) = 1 THEN parts[1]
    ELSE parts[1] \o <<","," ">> \o JoinComma(Tail(parts))

\* _detect_measure_type
DetectMeasureType(frame) ==
    IF HasCol(frame, <<"m","e","a","s","u","r","e">>)
    THEN LET measures == Unique([i \in 1..Len(frame.rows) |->
                                    frame.rows[i][ColIdx(frame, <<"m","e","a","s","u","r","e">>)].s])
         IN  JoinComma(measures)
    ELSE <<"v","a","l","u","e">>

\* chart_meta.units or "units"
UnitsOf(chart) == IF chart.units \in {<<>>, None} THEN <<"u","n","i","t","s">> ELSE chart.units

\* Every row of the frame, as indices.
AllRows(frame) == [i \in 1..Len(frame.rows) |-> i]

\* non_baseline_scen["val"].sum() of a scenario
ScenTotal(frame, scen) ==
    SumCol(frame, NonBaselineRows(frame, ScenRows(frame, scen)), <<"v","a","l">>)

\* min(non_baseline.groupby("scen")["val"].sum()): the least total of the
\* scenarios that have non-baseline rows
MinTotal(frame, scenarios) ==
    SetMin({ScenTotal(frame, s) :
              s \in {x \in Range(scenarios) :
                        NonBaselineRows(frame, ScenRows(frame, x)) # <<>>}})

\* The test without its total < 0.
DeepestCutsAnySign(frame, scenarios, scen) ==
    /\ NonBaselineRows(frame, ScenRows(frame, scen)) # <<>>
    /\ (scen = scenarios[1] \/ ScenTotal(frame, scen) = MinTotal(frame, scenarios))

\* Whether _add_emissions_insights appends "{scen} achieves deepest total
\* cuts" for scen.
DeepestCuts(frame, scenarios, scen) ==
    /\ NonBaselineRows(frame, ScenRows(frame, scen)) # <<>>
    /\ (scen = scenarios[1] \/ ScenTotal(frame, scen) = MinTotal(frame, scenarios))
    /\ ScenTotal(frame, scen) < 0

RECURSIVE Flatten(_)
Flatten(ss) == IF ss = <<>> THEN <<>> ELSE Head(ss) \o Flatten(Tail(ss))

\* What the loop body of _add_emissions_insights appends for scen.
ScenarioInsights(frame, scenarios, scen) ==
    LET non_baseline_scen == NonBaselineRows(frame, ScenRows(frame, scen))
        increases == SelectSeq(non_baseline_scen, LAMBDA i : Val(frame, i) > 0)
    IN  (IF DeepestCuts(frame, scenarios, scen)
         THEN <<[kind |-> "deepest", scen |-> scen,
                 value |-> Round2(ScenTotal(frame, scen))]>>
         ELSE <<>>)
        \o [k \in 1..Len(increases) |->
               [kind |-> "increase", scen |-> scen,
                sector |-> frame.rows[increases[k]][1],
                value |-> Round2(Val(frame, increases[k]))]]

\* sector_avg.idxmin() and abs(sector_avg.min()) as :.0f: the first sector,
\* in sorted order, of the least mean val over the non-baseline rows.
TopReducer(frame, non_baseline) ==
    LET keys == SortStrings({frame.rows[i][1].s : i \in Range(non_baseline)})
        rowsOf(k) == SelectSeq(non_baseline, LAMBDA i : frame.rows[i][1].s = keys[k])
        sum(k) == SumCol(frame, rowsOf(k), <<"v","a","l">>)
        cnt(k) == Len(rowsOf(k))
        top == SetMin({k \in 1..Len(keys) :
                          \A j \in 1..Len(keys) : sum(k) * cnt(j) <= sum(j) * cnt(k)})
    IN  [sector |-> keys[top], value |-> RoundDiv(Abs(sum(top)), cnt(top) * 1000)]

\* _add_emissions_insights
AddEmissionsInsights(frame, scenarios, chart) ==
    LET baseline_rows == BaselineRows(frame, AllRows(frame))
        non_baseline == NonBaselineRows(frame, AllRows(frame))
    IN  (IF baseline_rows # <<>>
         THEN <<[kind |-> "baseline", value |-> Round2(Val(frame, baseline_rows[1])),
                 units |-> UnitsOf(chart)]>>
         ELSE <<>>)
        \o (IF non_baseline # <<>>
            THEN <<[kind |-> "largest", sector |-> TopReducer(frame, non_baseline).sector,
                    value |-> TopReducer(frame, non_baseline).value,
                    units |-> UnitsOf(chart)]>>
            ELSE <<>>)
        \o Flatten([k \in 1..Len(scenarios) |-> ScenarioInsights(frame, scenarios, scenarios[k])])

\* scenarios[:2]
FirstTwo(scenarios) == SubSeq(scenarios, 1, IF Len(scenarios) < 2 THEN Len(scenarios) ELSE 2)

\* What the first loop of _add_timeseries_insights appends for scen.
TrendInsight(frame, year_cols, scen) ==
    LET scen_df == IF HasCol(frame, <<"s","c","e","n">>) THEN ScenRows(frame, scen) ELSE AllRows(frame)
        start_total == SumCol(frame, scen_df, FirstYear(year_cols))
        end_total == SumCol(frame, scen_df, LastYear(year_cols))
    IN  IF start_total # 0
        THEN <<[kind |-> "trend", scen |-> scen,
                direction |-> IF end_total > start_total THEN "increases" ELSE "decreases",
                pct |-> RoundDiv(Abs(end_total - start_total) * 1000, Abs(start_total)),
                first_year |-> FirstYear(year_cols), last_year |-> LastYear(year_cols)]>>
        ELSE <<>>

\* The comparison without its "if max_scen != min_scen".
FinalTotalsInsightAlways(frame, year_cols, scenarios, chart) ==
    LET final(k) == SumCol(frame, ScenRows(frame, scenarios[k]), LastYear(year_cols))
        max_scen == SetMin({k \in 1..Len(scenarios) :
                               \A j \in 1..Len(scenarios) : final(j) <= final(k)})
        min_scen == SetMin({k \in 1..Len(scenarios) :
                               \A j \in 1..Len(scenarios) : final(k) <= final(j)})
    IN  IF Len(scenarios) > 1 /\ HasCol(frame, <<"s","c","e","n">>)
        THEN <<[kind |-> "higher", last_year |-> LastYear(year_cols),
                max_scen |-> scenarios[max_scen],
                diff |-> RoundDiv(final(max_scen) - final(min_scen), 100),
                units |-> UnitsOf(chart), min_scen |-> scenarios[min_scen]]>>
        ELSE <<>>

\* The comparison of the final totals at the end of _add_timeseries_insights:
\* max() and min() take the first scenario of the greatest (least) total.
FinalTotalsInsight(frame, year_cols, scenarios, chart) ==
    LET final(k) == SumCol(frame, ScenRows(frame, scenarios[k]), LastYear(year_cols))
        max_scen == SetMin({k \in 1..Len(scenarios) :
                               \A j \in 1..Len(scenarios) : final(j) <= final(k)})
        min_scen == SetMin({k \in 1..Len(scenarios) :
                               \A j \in 1..Len(scenarios) : final(k) <= final(j)})
    IN  IF Len(scenarios) > 1 /\ HasCol(frame, <<"s","c","e","n">>) /\ max_scen # min_scen
        THEN <<[kind |-> "higher", last_year |-> LastYear(year_cols),
                max_scen |-> scenarios[max_scen],
                diff |-> RoundDiv(final(max_scen) - final(min_scen), 100),
                units |-> UnitsOf(chart), min_scen |-> scenarios[min_scen]]>>
        ELSE <<>>

\* _add_timeseries_insights
AddTimeseriesInsights(frame, year_cols, scenarios, chart) ==
    Flatten([k \in 1..Len(FirstTwo(scenarios)) |-> TrendInsight(frame, year_cols, scenarios[k])])
    \o FinalTotalsInsight(frame, year_cols, scenarios, chart)

\* _generate_insights
GenerateInsights(frame, chart) ==
    IF HasCol(frame, <<"v","a","l">>)
    THEN AddEmissionsInsights(frame, ExtractScenarios(frame), chart)
    ELSE IF YearCols(frame) # <<>>
    THEN AddTimeseriesInsights(frame, YearCols(frame), ExtractScenarios(frame), chart)
    ELSE <<>>

\* A CSV file pandas cannot parse (an empty file, for one).
Unreadable == [columns |-> <<>>, rows |-> <<>>, readable |-> FALSE]

\* A CSV file with its header and its data rows.
Csv(columns, rows) == [columns |-> columns, rows |-> rows, readable |-> TRUE]

\* The data root of the reader: two charts with a CSV file and one with a
\* picture only.
ReaderFiles ==
    {[dir |-> <<"e","m","i","s","s","i","o","n","s">>, name |-> <<"t","o","t","a","l",".","c","s","v">>],
     [dir |-> <<"e","m","i","s","s","i","o","n","s">>, name |-> <<"s","e","c","t","o","r",".","c","s","v">>],
     [dir |-> <<"e","m","i","s","s","i","o","n","s">>, name |-> <<"f","l","e","e","t",".","p","n","g">>]}

ReaderDisk == [exists |-> TRUE, dirs |-> {<<"e","m","i","s","s","i","o","n","s">>}, files |-> ReaderFiles]

\* The chart ids callers ask for: the three charts and one no chart has.
AskedIds == {<<"t","o","t","a","l">>, <<"s","e","c","t","o","r">>, <<"f","l","e","e","t">>, <<"n","o","n","e","x","i","s","t","e","n","t">>}

\* The most calls made on one reader, and the most rows of a CSV file.
MaxCalls == 3

MaxRows == 5

\* The columns and the rows CSV files of relative shape are made of: values
\* in thousandths, baseline rows written "Net", "net" and "Network", equal
\* values, a zero, and rows out of order.
RelColumns == <<<<"s","e","c","t","o","r">>, <<"v","a","l">>, <<"s","c","e","n">>, <<"m","e","a","s","u","r","e">>>>

RelRows ==
    <<<<TextCell(<<"N","e","t"," ","2","0","2","5">>), NumCell(401050), TextCell(<<"A">>), TextCell(<<"r","e","l","a","t","i","v","e">>)>>,
      <<TextCell(<<"T","r","a","n","s","p","o","r","t">>), NumCell(-94068), TextCell(<<"A">>), TextCell(<<"r","e","l","a","t","i","v","e">>)>>,
      <<TextCell(<<"n","e","t"," ","z","e","r","o">>), NumCell(300000), TextCell(<<"A">>), TextCell(<<"r","e","l","a","t","i","v","e">>)>>,
      <<TextCell(<<"P","o","w","e","r">>), NumCell(-128924), TextCell(<<"A">>), TextCell(<<"r","e","l","a","t","i","v","e">>)>>,
      <<TextCell(<<"L","a","n","d">>), NumCell(33584), TextCell(<<"A">>), TextCell(<<"r","e","l","a","t","i","v","e">>)>>,
      <<TextCell(<<"I","n","d","u","s","t","r","y">>), NumCell(-109742), TextCell(<<"A">>), TextCell(<<"r","e","l","a","t","i","v","e">>)>>,
      <<TextCell(<<"L","a","n","d">>), NumCell(-94068), TextCell(<<"A">>), TextCell(<<"r","e","l","a","t","i","v","e">>)>>,
      <<TextCell(<<"W","a","s","t","e">>), NumCell(0), TextCell(<<"A">>), TextCell(<<"r","e","l","a","t","i","v","e">>)>>,
      <<TextCell(<<"C","e","m","e","n","t">>), NumCell(7002), TextCell(<<"A">>), TextCell(<<"a","b","s","o","l","u","t","e">>)>>,
      <<TextCell(<<"N","e","t","w","o","r","k">>), NumCell(5004), TextCell(<<"B">>), TextCell(<<"r","e","l","a","t","i","v","e">>)>>,
      <<TextCell(<<"P","o","w","e","r">>), NumCell(-1004), TextCell(<<"B">>), TextCell(<<"r","e","l","a","t","i","v","e">>)>>,
      <<TextCell(<<"L","a","n","d">>), NumCell(2006), TextCell(<<"B">>), TextCell(<<"r","e","l","a","t","i","v","e">>)>>,
      <<TextCell(<<"G","a","s">>), NumCell(-50002), TextCell(<<"C">>), TextCell(<<"r","e","l","a","t","i","v","e">>)>>>>

\* The columns and rows of time-series shape: a scenario whose start total
\* is zero, one that rises and one that falls, final totals that are equal
\* and final totals less than 0.05 apart.
TsColumns == <<<<"s","e","c","t","o","r">>, <<"s","c","e","n">>, <<"2","0","2","5">>, <<"2","0","5","0">>, <<"1","9","9","9">>>>

TsRows ==
    <<<<TextCell(<<"C","o","a","l">>), TextCell(<<"S","1">>), NumCell(10000), NumCell(5000), NumCell(1000)>>,
      <<TextCell(<<"G","a","s">>), TextCell(<<"S","1">>), NumCell(-10000), NumCell(3000), NumCell(1000)>>,
      <<TextCell(<<"C","o","a","l">>), TextCell(<<"S","2">>), NumCell(4000), NumCell(8030), NumCell(1000)>>,
      <<TextCell(<<"G","a","s">>), TextCell(<<"S","3">>), NumCell(3000), NumCell(2000), NumCell(1000)>>,
      <<TextCell(<<"C","o","a","l">>), TextCell(<<"S","3">>), NumCell(0), NumCell(5000), NumCell(1000)>>>>

\* The subsequences of pool of at most max rows.
Picks(pool, max) ==
    {LET F[i \in 0..Len(pool)] ==
             IF i = 0 THEN <<>>
             ELSE IF i \in S THEN Append(F[i - 1], pool[i]) ELSE F[i - 1]
     IN  F[Len(pool)] :
        S \in {T \in SUBSET (1..Len(pool)) : Cardinality(T) <= max}}

\* The CSV file with the columns named by layout (positions in columns).
Laid(columns, rows, layout) ==
    Csv([k \in 1..Len(layout) |-> columns[layout[k]]],
        [i \in 1..Len(rows) |-> [k \in 1..Len(layout) |-> rows[i][layout[k]]]])

\* The CSV files summaries are computed from: relative shape with the
\* sector first, with the scenario first and with no scen column; time
\* series with and without a scen column, the years in either order.
SummaryCsvs ==
    {Laid(RelColumns, rows, layout) :
        rows \in Picks(RelRows, MaxRows), layout \in {<<1, 2, 3>>, <<3, 2>>, <<1, 2>>}}
    \cup {Laid(TsColumns, rows, layout) :
             rows \in Picks(TsRows, MaxRows), layout \in {<<1, 2, 3, 4>>, <<1, 4, 5, 3>>}}

\* The CSV files of the sequences of calls: a file of each shape, one with a
\* header only, one with no column of a known name and one that cannot be
\* parsed.
ReaderCsvs ==
    {Laid(RelColumns, SubSeq(RelRows, 1, 2) \o SubSeq(RelRows, 9, 11), <<1, 2, 4, 3>>),
     Laid(TsColumns, SubSeq(TsRows, 1, 3), <<1, 2, 3, 4>>),
     Laid(RelColumns, <<>>, <<1, 2, 3>>),
     Laid(TsColumns, SubSeq(TsRows, 1, 2), <<1, 5>>),
     Unreadable}

\* The columns and rows the scenarios and years are extracted from: scenario
\* names out of order, repeated, in both letter cases and missing; years out
\* of order, repeated, with a fraction and missing.
YearColumns == <<<<"s","e","c","t","o","r">>, <<"s","c","e","n">>, <<"y","e","a","r">>, <<"v","a","l">>, <<"2","0","5","0">>>>

YearRows ==
    <<<<TextCell(<<"C","o","a","l">>), TextCell(<<"B">>), NumCell(2030000), NumCell(-1000), NumCell(1000)>>,
      <<TextCell(<<"G","a","s">>), TextCell(<<"A","B">>), NumCell(2025000), NumCell(2000), NumCell(1000)>>,
      <<TextCell(<<"O","i","l">>), NullCell, NumCell(2025500), NumCell(-3000), NumCell(1000)>>,
      <<TextCell(<<"C","o","a","l">>), TextCell(<<"b">>), NullCell, NumCell(4000), NumCell(1000)>>,
      <<TextCell(<<"G","a","s">>), TextCell(<<"A">>), NumCell(2025000), NumCell(-5000), NumCell(1000)>>,
      <<TextCell(<<"O","i","l">>), TextCell(<<"B">>), NumCell(2020000), NumCell(6000), NumCell(1000)>>>>

\* Column names that are years, digits out of the range of years, and no
\* digits at all.
NamedColumns ==
    <<<<"s","e","c","t","o","r">>, <<"s","c","e","n">>, <<"2","1","0","0">>, <<"1","9","9","9">>, <<"2","0","2","5">>, <<"2","1","0","1">>, <<"2","0","0","0">>, <<"2","0","a","5">>, <<"2","0","5">>>>

NamedRow ==
    <<TextCell(<<"C","o","a","l">>), TextCell(<<"A">>), NumCell(1000), NumCell(2000), NumCell(3000),
      NumCell(4000), NumCell(5000), NumCell(6000), NumCell(7000)>>

\* The CSV files of the extraction: rows with a year column, with and without
\* a scen column and a year-named column beside it, and one row under every
\* choice of the named columns.
ExtractCsvs ==
    {Laid(YearColumns, rows, layout) :
        rows \in Picks(YearRows, MaxRows),
        layout \in {<<1, 2, 3, 4>>, <<1, 3, 4>>, <<1, 2, 5, 3>>}}
    \cup {Laid(NamedColumns, <<NamedRow>>, layout) :
             layout \in Picks(<<1, 2, 3, 4, 5, 6, 7, 8, 9>>, 9)}

\* No frame, no call and no return value.
NoFrame == [obj |-> 0, columns |-> <<>>, rows |-> <<>>]

NoReaderCall == [op |-> "none", chart_id |-> <<>>]

NoReturn == [kind |-> "none"]

ReaderIdle ==
    /\ csvFiles = <<>>
    /\ df_cache = <<>>
    /\ reads = <<>>
    /\ summaries = {}
    /\ nextObj = 0
    /\ callsLeft = 0
    /\ rdCall = NoReaderCall
    /\ df = NoFrame
    /\ scenIdx = 0
    /\ by_scenario = <<>>
    /\ rdRet = NoReturn
    /\ rdPc = "idle"

\* The lookup that never finds an entry.
InCacheNever(cache, chart_id) == FALSE

\* chart_id in self._df_cache
InCache(cache, chart_id) == chart_id \in DOMAIN cache

\* The test that lets a chart with no CSV file through.
NotFoundUnknownOnly(chart) == chart = NoChart

\* chart is None or chart.path_csv is None
NotFound(chart) == IF chart = NoChart THEN TRUE ELSE chart.path_csv = None

\* pd.read_csv(path): a new DataFrame object with the content of the file
ReadCsv(files, path, obj) ==
    [obj |-> obj, columns |-> files[path].columns, rows |-> files[path].rows]

\* self._df_cache[chart_id] = df
CachePut(cache, chart_id, frame) ==
    [k \in DOMAIN cache \cup {chart_id} |-> IF k = chart_id THEN frame ELSE cache[k]]

\* What load_data(chart_id) does: "cached" (line 40), "notfound" (the
\* ValueError of line 44), "readfails" (read_csv raises: no file at the
\* path, or one it cannot parse) or "read".
LoadOutcome(cache, chartsNow, files, chart_id) ==
    IF InCache(cache, chart_id) THEN "cached"
    ELSE IF NotFound(GetChart(chartsNow, chart_id)) THEN "notfound"
    ELSE IF GetChart(chartsNow, chart_id).path_csv \notin DOMAIN files THEN "readfails"
    ELSE IF ~files[GetChart(chartsNow, chart_id).path_csv].readable THEN "readfails"
    ELSE "read"

\* The body of load_data for every outcome: the cache, the reads of CSV
\* files, the objects made and what load_data returns or raises.
LoadData(chart_id) ==
    LET outcome == LoadOutcome(df_cache, charts, csvFiles, chart_id)
        chart == GetChart(charts, chart_id)
    IN  \/ /\ outcome = "cached"
           /\ rdRet' = [kind |-> "frame", frame |-> df_cache[chart_id]]
           /\ UNCHANGED <<df_cache, reads, nextObj>>
        \/ /\ outcome = "notfound"
           /\ rdRet' = [kind |-> "raised", error |-> "ValueError"]
           /\ UNCHANGED <<df_cache, reads, nextObj>>
        \/ /\ outcome = "readfails"
           /\ rdRet' = [kind |-> "raised", error |-> "ReadError"]
           /\ reads' = Append(reads, [chart_id |-> chart_id, ok |-> FALSE])
           /\ UNCHANGED <<df_cache, nextObj>>
        \/ /\ outcome = "read"
           /\ rdRet' = [kind |-> "frame", frame |-> ReadCsv(csvFiles, chart.path_csv, nextObj + 1)]
           /\ df_cache' = CachePut(df_cache, chart_id, ReadCsv(csvFiles, chart.path_csv, nextObj + 1))
           /\ reads' = Append(reads, [chart_id |-> chart_id, ok |-> TRUE])
           /\ nextObj' = nextObj + 1

\* A caller calls load_data(chart_id).
CallLoadData ==
    /\ rdPc = "idle"
    /\ callsLeft > 0
    /\ \E chart_id \in AskedIds :
          /\ rdCall' = [op |-> "load_data", chart_id |-> chart_id]
          /\ LoadData(chart_id)
    /\ rdPc' = "done"
    /\ UNCHANGED <<csvFiles, summaries, callsLeft, df, scenIdx, by_scenario>>
    /\ UNCHANGED <<outlineVars, catalogVars, loaderVars, mapperVars, slugVars, reviewVars, stateVars, metaVars, sidecarVars>>

\* get_summary(chart_id) for a chart the catalog does not hold: lines 52-54
GetSummaryNotFound ==
    /\ rdPc = "idle"
    /\ callsLeft > 0
    /\ \E chart_id \in AskedIds :
          /\ GetChart(charts, chart_id) = NoChart
          /\ rdCall' = [op |-> "get_summary", chart_id |-> chart_id]
    /\ rdRet' = [kind |-> "raised", error |-> "ValueError"]
    /\ rdPc' = "done"
    /\ UNCHANGED <<csvFiles, df_cache, reads, summaries, nextObj, callsLeft, df, scenIdx, by_scenario>>
    /\ UNCHANGED <<outlineVars, catalogVars, loaderVars, mapperVars, slugVars, reviewVars, stateVars, metaVars, sidecarVars>>

\* get_summary(chart_id) up to the loop over the scenarios: load_data at
\* line 56 raises, or hands over the frame the summary is computed from.
GetSummaryLoad ==
    /\ rdPc = "idle"
    /\ callsLeft > 0
    /\ \E chart_id \in AskedIds :
          /\ GetChart(charts, chart_id) # NoChart
          /\ rdCall' = [op |-> "get_summary", chart_id |-> chart_id]
          /\ LoadData(chart_id)
    /\ IF rdRet'.kind = "raised"
       THEN /\ rdPc' = "done"
            /\ UNCHANGED <<df, scenIdx, by_scenario>>
       ELSE /\ rdPc' = "scenarios"
            /\ df' = rdRet'.frame
            /\ scenIdx' = 1
            /\ by_scenario' = <<>>
    /\ UNCHANGED <<csvFiles, summaries, callsLeft>>
    /\ UNCHANGED <<outlineVars, catalogVars, loaderVars, mapperVars, slugVars, reviewVars, stateVars, metaVars, sidecarVars>>

\* by_scenario[scenario] = self._compute_scenario_summary(df, scenario)
SummarizeScenario ==
    /\ rdPc = "scenarios"
    /\ scenIdx <= Len(ExtractScenarios(df))
    /\ LET scenario == ExtractScenarios(df)[scenIdx]
           non_baseline == IF HasCol(df, <<"v","a","l">>)
                           THEN NonBaselineRows(df, ScenRows(df, scenario)) ELSE <<>>
       IN  \E sorted \in SortedOrders(df, Range(non_baseline)) :
              by_scenario' = DictSet(by_scenario, scenario,
                                     ComputeScenarioSummary(df, scenario, sorted))
    /\ scenIdx' = scenIdx + 1
    /\ UNCHANGED <<csvFiles, df_cache, reads, summaries, nextObj, callsLeft, rdCall, df, rdRet, rdPc>>
    /\ UNCHANGED <<outlineVars, catalogVars, loaderVars, mapperVars, slugVars, reviewVars, stateVars, metaVars, sidecarVars>>

\* The ChartSummary of lines 70-82, a new object.
MakeSummary(chart_id, chart, frame, scenario_summaries, obj) ==
    [obj |-> obj,
     chart_id |-> chart_id,
     title |-> chart.title,
     dimensions |-> DetectDimensions(frame, chart),
     measure |-> DetectMeasure(frame),
     measure_type |-> DetectMeasureType(frame),
     units |-> chart.units,
     scenarios |-> ExtractScenarios(frame),
     years |-> ExtractYears(frame),
     row_count |-> Len(frame.rows),
     by_scenario |-> scenario_summaries,
     key_insights |-> GenerateInsights(frame, chart),
     frame |-> frame.obj]

\* The end of get_summary: the insights and the ChartSummary returned.
SummaryReturn ==
    /\ rdPc = "scenarios"
    /\ scenIdx > Len(ExtractScenarios(df))
    /\ rdRet' = [kind |-> "summary",
                 summary |-> MakeSummary(rdCall.chart_id, GetChart(charts, rdCall.chart_id),
                                         df, by_scenario, nextObj + 1)]
    /\ summaries' = summaries \cup {nextObj + 1}
    /\ nextObj' = nextObj + 1
    /\ rdPc' = "done"
    /\ UNCHANGED <<csvFiles, df_cache, reads, callsLeft, rdCall, df, scenIdx, by_scenario>>
    /\ UNCHANGED <<outlineVars, catalogVars, loaderVars, mapperVars, slugVars, reviewVars, stateVars, metaVars, sidecarVars>>

\* The caller takes the result or the error; the reader is ready for the
\* next call.
ReaderReturns ==
    /\ rdPc = "done"
    /\ rdPc' = "idle"
    /\ callsLeft' = callsLeft - 1
    /\ UNCHANGED <<csvFiles, df_cache, reads, summaries, nextObj, rdCall, df, scenIdx, by_scenario, rdRet>>
    /\ UNCHANGED <<outlineVars, catalogVars, loaderVars, mapperVars, slugVars, reviewVars, stateVars, metaVars, sidecarVars>>

(***************************************************************************)
(* DataCatalog._find_data_root                                             *)
(*                                                                         *)
(* The folder a catalog is given is [path, exists, specs, dirs, files,     *)
(* plain, subs]: specs is the text of its plot_specs.json (None without    *)
(* one), dirs its subfolders, files the chart files in them, plain the     *)
(* names of the files that lie beside the subfolders, and subs the content *)
(* of each subfolder when it is taken as a data root. The data root found  *)
(* is [path, exists, specs, dirs, files, original_root].                   *)
(***************************************************************************)

\* The folder read as the data root of a catalog given original.
AsDataRoot(folder, original) ==
    [path |-> folder.path, exists |-> folder.exists, specs |-> folder.specs,
     dirs |-> folder.dirs, files |-> folder.files, original_root |-> original]

\* The search that does not pass over the dot folders.
FindDataRootWithDotFolders(original) ==
    LET hits == SelectSeq(SortStrings(original.dirs \cup original.plain),
                          LAMBDA n : IF n \in original.dirs
                                     THEN original.subs[n].specs # None
                                     ELSE FALSE)
    IN  IF ~original.exists THEN AsDataRoot(original, original)
        ELSE IF original.specs # None THEN AsDataRoot(original, original)
        ELSE IF hits # <<>> THEN AsDataRoot(original.subs[hits[1]], original)
        ELSE AsDataRoot(original, original)

\* _find_data_root: hits are the entries of sorted(iterdir()) that are
\* folders, have no dot in front and hold a plot_specs.json.
FindDataRoot(original) ==
    LET hits == SelectSeq(SortStrings(original.dirs \cup original.plain),
                          LAMBDA n : IF n \in original.dirs /\ n[1] # "."
                                     THEN original.subs[n].specs # None
                                     ELSE FALSE)
    IN  IF ~original.exists THEN AsDataRoot(original, original)
        ELSE IF original.specs # None THEN AsDataRoot(original, original)
        ELSE IF hits # <<>> THEN AsDataRoot(original.subs[hits[1]], original)
        ELSE AsDataRoot(original, original)

\* DataCatalog.__init__ up to _load_plot_specs: the data root is found, the
\* catalog starts empty, and plot_specs.json is looked for in the data root.
FindRoot ==
    /\ cpc = "find"
    /\ disk' = FindDataRoot(disk)
    /\ specsText' = FindDataRoot(disk).specs
    /\ charts' = <<>>
    /\ categories' = <<>>
    /\ plot_specs' = <<>>
    /\ partIdx' = 1
    /\ cpc' = "load"
    /\ UNCHANGED toScan
    /\ UNCHANGED <<outlineVars, loaderVars, mapperVars, slugVars, reviewVars, readerVars, stateVars, metaVars, sidecarVars>>

\* The texts of plot_specs.json in the folders of the model.
RootSpecTexts == {JoinLines(<<o>>) : o \in {p \in SpecObjects : Len(p) >= 5}}

\* The subfolder name, with the text t as plot_specs.json (None: without
\* one) and one chart of its own in a category folder.
SubFolder(name, t) ==
    [path |-> name, exists |-> TRUE, specs |-> t,
     dirs |-> {<<"e","m","i","s","s","i","o","n","s">>},
     files |-> {[dir |-> <<"e","m","i","s","s","i","o","n","s">>, name |-> name \o <<".","c","s","v">>]}]

\* The folders catalogs are given: one that does not exist, and folders with
\* or without plot_specs.json that hold any of a dot folder, two export
\* folders and a category folder with a chart, and maybe a plain file.
OriginalRoots ==
    {[path |-> <<>>, exists |-> FALSE, specs |-> None, dirs |-> {}, files |-> {},
      plain |-> {}, subs |-> <<>>]}
    \cup UNION {{[path |-> <<>>, exists |-> TRUE, specs |-> t, dirs |-> D,
                  files |-> {f \in {[dir |-> <<"e","m","i","s","s","i","o","n","s">>, name |-> <<"x",".","c","s","v">>]} : f.dir \in D},
                  plain |-> P, subs |-> [n \in D |-> SubFolder(n, s[n])]] :
                    t \in RootSpecTexts \cup {None},
                    P \in {{}, {<<"a",".","t","x","t">>}},
                    s \in [D -> RootSpecTexts \cup {None}]} :
                 D \in SUBSET {<<".","c","a","c","h","e">>, <<"b","_","n","e","w">>, <<"a","_","o","l","d">>, <<"e","m","i","s","s","i","o","n","s">>}}

(***************************************************************************)
(* ReportState (report_state.py)                                           *)
(***************************************************************************)

CanonicalFigure(id, semantic_key, owner_section, caption, chart_id) ==
    [id |-> id, semantic_key |-> semantic_key, owner_section |-> owner_section,
     caption |-> caption, chart_id |-> chart_id]

CanonicalTable(id, semantic_key, owner_section, caption) ==
    [id |-> id, semantic_key |-> semantic_key, owner_section |-> owner_section,
     caption |-> caption]

\* SectionStateMeta(section_id=section_id), with the defaults of lines 60-61.
SectionStateMeta(section_id) ==
    [section_id |-> section_id, version |-> 1, last_integrated_version |-> 0]

NoStateCall == [op |-> "none", section_id |-> <<>>]

StateIdle ==
    /\ figures = <<>>
    /\ tables = <<>>
    /\ section_meta = <<>>
    /\ stCall = NoStateCall
    /\ stRet = NoReturn

\* str(n) for an integer n
RECURSIVE NatStr(_)
NatStr(n) ==
    IF n < 10 THEN <<CodeOrder[Ord["0"] + n]>>
    ELSE NatStr(n \div 10) \o <<CodeOrder[Ord["0"] + (n % 10)]>>

IntStr(n) == IF n < 0 THEN <<"-">> \o NatStr(0 - n) ELSE NatStr(n)

\* The loop of lines 153-160 and 169-176: the largest int(id[1:]) over the
\* ids that start with the letter and whose rest int() accepts, and 0 when
\* there is none or all are negative.
RECURSIVE MaxNum(_, _)
MaxNum(list, letter) ==
    IF list = <<>> THEN 0
    ELSE LET id == list[Len(list)].id
             before == MaxNum(SubSeq(list, 1, Len(list) - 1), letter)
         IN  IF StartsWith(id, <<letter>>) /\ IsInt(Tail(id))
             THEN IF IntOf(Tail(id)) > before THEN IntOf(Tail(id)) ELSE before
             ELSE before

\* The id allocation that counts the entries.
GetNextFigureIdByCount(figs) == <<"F">> \o IntStr(Len(figs) + 1)

\* get_next_figure_id
GetNextFigureId(figs) ==
    IF figs = <<>> THEN <<"F","1">> ELSE <<"F">> \o IntStr(MaxNum(figs, "F") + 1)

\* get_next_table_id
GetNextTableId(tbls) ==
    IF tbls = <<>> THEN <<"T","1">> ELSE <<"T">> \o IntStr(MaxNum(tbls, "T") + 1)

\* get_section_meta: the dict after the call (the entry is created when
\* it is missing).
GetSectionMeta(meta, section_id) ==
    IF section_id \in DOMAIN meta THEN meta
    ELSE [s \in DOMAIN meta \cup {section_id} |->
             IF s = section_id THEN SectionStateMeta(section_id) ELSE meta[s]]

\* The sections, captions and keys the callers pass.
StateSectionIds == {<<"r","e","s","u","l","t","s">>, <<"m","e","t","h","o","d","s">>}

FigureArgs ==
    {[semantic_key |-> <<"t","h","r","o","u","g","h","p","u","t">>, owner_section |-> <<"r","e","s","u","l","t","s">>,
      caption |-> <<"T","h","r","o","u","g","h","p","u","t">>, chart_id |-> <<"c","h","a","r","t","-","x","y","z">>],
     [semantic_key |-> <<"c","o","s","t">>, owner_section |-> <<"m","e","t","h","o","d","s">>,
      caption |-> <<"C","o","s","t">>, chart_id |-> None]}

TableArgs ==
    {[semantic_key |-> <<"s","u","m","m","a","r","y">>, owner_section |-> <<"r","e","s","u","l","t","s">>, caption |-> <<"S","u","m","m","a","r","y">>]}

MaxFigures == 3
MaxVersion == 3

\* register_figure
RegisterFigure(a) ==
    /\ Len(figures) < MaxFigures
    /\ LET figure == CanonicalFigure(GetNextFigureId(figures), a.semantic_key,
                                     a.owner_section, a.caption, a.chart_id)
       IN  /\ figures' = Append(figures, figure)
           /\ stRet' = [kind |-> "figure", v |-> figure]
    /\ stCall' = [op |-> "register_figure", section_id |-> a.owner_section]
    /\ UNCHANGED <<tables, section_meta>>
    /\ UNCHANGED <<outlineVars, catalogVars, loaderVars, mapperVars, slugVars, reviewVars, readerVars, metaVars, sidecarVars>>

\* register_table
RegisterTable(a) ==
    /\ Len(tables) < MaxFigures
    /\ LET table == CanonicalTable(GetNextTableId(tables), a.semantic_key,
                                   a.owner_section, a.caption)
       IN  /\ tables' = Append(tables, table)
           /\ stRet' = [kind |-> "table", v |-> table]
    /\ stCall' = [op |-> "register_table", section_id |-> a.owner_section]
    /\ UNCHANGED <<figures, section_meta>>
    /\ UNCHANGED <<outlineVars, catalogVars, loaderVars, mapperVars, slugVars, reviewVars, readerVars, metaVars, sidecarVars>>

\* increment_section_version
IncrementSectionVersion(section_id) ==
    LET meta == GetSectionMeta(section_meta, section_id)
    IN  /\ meta[section_id].version < MaxVersion
        /\ section_meta' = [meta EXCEPT ![section_id].version = @ + 1]
        /\ stRet' = [kind |-> "int", v |-> meta[section_id].version + 1]
        /\ stCall' = [op |-> "increment_section_version", section_id |-> section_id]
        /\ UNCHANGED <<figures, tables>>
        /\ UNCHANGED <<outlineVars, catalogVars, loaderVars, mapperVars, slugVars, reviewVars, readerVars, metaVars, sidecarVars>>

\* The marking that records the version before the current one.
MarkSectionIntegratedBehind(section_id) ==
    LET meta == GetSectionMeta(section_meta, section_id)
    IN  /\ section_meta' = [meta EXCEPT ![section_id].last_integrated_version =
                                            meta[section_id].version - 1]
        /\ stRet' = [kind |-> "None"]
        /\ stCall' = [op |-> "mark_section_integrated", section_id |-> section_id]
        /\ UNCHANGED <<figures, tables>>
        /\ UNCHANGED <<outlineVars, catalogVars, loaderVars, mapperVars, slugVars, reviewVars, readerVars, metaVars, sidecarVars>>

\* mark_section_integrated
MarkSectionIntegrated(section_id) ==
    LET meta == GetSectionMeta(section_meta, section_id)
    IN  /\ section_meta' = [meta EXCEPT ![section_id].last_integrated_version =
                                            meta[section_id].version]
        /\ stRet' = [kind |-> "None"]
        /\ stCall' = [op |-> "mark_section_integrated", section_id |-> section_id]
        /\ UNCHANGED <<figures, tables>>
        /\ UNCHANGED <<outlineVars, catalogVars, loaderVars, mapperVars, slugVars, reviewVars, readerVars, metaVars, sidecarVars>>

\* is_section_stale
IsSectionStale(section_id) ==
    LET meta == GetSectionMeta(section_meta, section_id)
    IN  /\ section_meta' = meta
        /\ stRet' = [kind |-> "bool",
                     v |-> meta[section_id].version > meta[section_id].last_integrated_version]
        /\ stCall' = [op |-> "is_section_stale", section_id |-> section_id]
        /\ UNCHANGED <<figures, tables>>
        /\ UNCHANGED <<outlineVars, catalogVars, loaderVars, mapperVars, slugVars, reviewVars, readerVars, metaVars, sidecarVars>>

(***************************************************************************)
(* REPORT_SECTION_META comments (section_meta.py)                          *)
(***************************************************************************)

\* Python values that json.dumps writes and json.loads returns, tagged as
\* in the mapping file above: JStr, JList, JNull (None), JDoc (a dict with
\* its items in insertion order), and integers and booleans.
JInt(n) == [t |-> "int", n |-> n]
JBool(b) == [t |-> "bool", b |-> b]

\* bool(value)
TruthyValue(value) ==
    IF value.t = "str" THEN value.s # <<>>
    ELSE IF value.t = "int" THEN value.n # 0
    ELSE IF value.t = "list" THEN value.items # <<>>
    ELSE IF value.t = "obj" THEN value.items # <<>>
    ELSE IF value.t = "bool" THEN value.b
    ELSE FALSE

HasKey(items, k) == \E i \in 1..Len(items) : items[i].key = k

\* d[k] for a key the dict holds, d.get(k, default) otherwise
ItemOf(items, k, default) ==
    IF HasKey(items, k)
    THEN items[CHOOSE i \in 1..Len(items) : items[i].key = k].value
    ELSE default

\* IntegrationNote, IntegrationHints and SectionMetaComment.  A missing
\* integration_hints (None) is the record with none = TRUE.
IntegrationNote(type, semantic_key, reason, replacement) ==
    [type |-> type, semantic_key |-> semantic_key, reason |-> reason,
     replacement |-> replacement]

IntegrationHints(avoid_figures, canonical_figures, notes) ==
    [none |-> FALSE, avoid_figures |-> avoid_figures,
     canonical_figures |-> canonical_figures, notes |-> notes]

NoHints ==
    [none |-> TRUE, avoid_figures |-> JNull, canonical_figures |-> JNull, notes |-> <<>>]

SectionMetaComment(section_id, version, integration_hints) ==
    [section_id |-> section_id, version |-> version,
     integration_hints |-> integration_hints]

(* json.dumps(data, indent=2) *)

RECURSIVE Spaces(_)
Spaces(n) == IF n <= 0 THEN <<>> ELSE <<" ">> \o Spaces(n - 1)

\* The escapes of json.dumps for the characters of the model.
EscapeChar(c) ==
    IF c = "\"" THEN <<"\\", "\"">>
    ELSE IF c = "\\" THEN <<"\\", "\\">>
    ELSE IF c = "\n" THEN <<"\\", "n">>
    ELSE IF c = "\t" THEN <<"\\", "t">>
    ELSE <<c>>

RECURSIVE Escape(_)
Escape(s) == IF s = <<>> THEN <<>> ELSE EscapeChar(Head(s)) \o Escape(Tail(s))

Quoted(s) == <<"\"">> \o Escape(s) \o <<"\"">>

RECURSIVE Dumps(_, _)
RECURSIVE DumpEach(_, _, _)

\* The items of a list or dict, one per line at indentation ind.
DumpEach(items, isDict, ind) ==
    IF items = <<>> THEN <<>>
    ELSE LET first == Head(items)
             line == IF isDict
                     THEN Spaces(ind) \o Quoted(first.key) \o <<":"," ">> \o Dumps(first.value, ind)
                     ELSE Spaces(ind) \o Dumps(first, ind)
         IN  IF Len(items) = 1 THEN line
             ELSE line \o <<",", "\n">> \o DumpEach(Tail(items), isDict, ind)

Dumps(value, ind) ==
    IF value.t = "str" THEN Quoted(value.s)
    ELSE IF value.t = "int" THEN IntStr(value.n)
    ELSE IF value.t = "bool" THEN (IF value.b THEN <<"t","r","u","e">> ELSE <<"f","a","l","s","e">>)
    ELSE IF value.t = "list"
    THEN IF value.items = <<>> THEN <<"[","]">>
         ELSE <<"[", "\n">> \o DumpEach(value.items, FALSE, ind + 2)
                  \o <<"\n">> \o Spaces(ind) \o <<"]">>
    ELSE IF value.t = "obj"
    THEN IF value.items = <<>> THEN <<"{","}">>
         ELSE <<"{", "\n">> \o DumpEach(value.items, TRUE, ind + 2)
                  \o <<"\n">> \o Spaces(ind) \o <<"}">>
    ELSE <<"n","u","l","l">>

(* json.loads(text) *)

\* text[i], and "" past either end
At(s, i) == IF i >= 1 /\ i <= Len(s) THEN s[i] ELSE ""

HasAt(s, i, lit) ==
    /\ i >= 1
    /\ i + Len(lit) - 1 <= Len(s)
    /\ SubSeq(s, i, i + Len(lit) - 1) = lit

\* The first position from i on that holds no white space.
WsEnd(s, i) ==
    IF i > Len(s) THEN i ELSE SetMin({j \in i..(Len(s) + 1) : At(s, j) \notin Space})

DigitsEnd(s, i) ==
    IF i > Len(s) THEN i ELSE SetMin({j \in i..(Len(s) + 1) : At(s, j) \notin Digits})

Parsed(v, i) == [ok |-> TRUE, v |-> v, i |-> i]

Rejected == [ok |-> FALSE, v |-> JNull, i |-> 0]

\* A string from the character after its opening quote on.  Of the escapes
\* the decoder knows, \", \\, \/, \n and \t are followed; a raw control
\* character ends the parse, as in the strict decoder.
RECURSIVE StringBody(_, _, _)
StringBody(s, j, acc) ==
    IF j > Len(s) THEN Rejected
    ELSE IF s[j] = "\"" THEN Parsed(JStr(acc), j + 1)
    ELSE IF s[j] = "\\"
    THEN IF At(s, j + 1) \in {"\"", "\\", "/"} THEN StringBody(s, j + 2, Append(acc, s[j + 1]))
         ELSE IF At(s, j + 1) = "n" THEN StringBody(s, j + 2, Append(acc, "\n"))
         ELSE IF At(s, j + 1) = "t" THEN StringBody(s, j + 2, Append(acc, "\t"))
         ELSE Rejected
    ELSE IF s[j] \in {"\n", "\t"} THEN Rejected
    ELSE StringBody(s, j + 1, Append(acc, s[j]))

\* An integer at i.  Fractions and exponents are not among the texts of the
\* model and are turned down.
IntAt(s, i) ==
    LET d == IF At(s, i) = "-" THEN i + 1 ELSE i
        e == DigitsEnd(s, d)
    IN  IF e = d \/ (At(s, d) = "0" /\ e > d + 1) \/ At(s, e) \in {".", "e", "E"}
        THEN Rejected
        ELSE Parsed(JInt(IF d > i THEN 0 - DigitsValue(SubSeq(s, d, e - 1))
                                  ELSE DigitsValue(SubSeq(s, d, e - 1))), e)

RECURSIVE ParseValue(_, _)
RECURSIVE ParseMembers(_, _, _)
RECURSIVE ParseElements(_, _, _)

\* The members of an object from the key at j on.
ParseMembers(s, j, acc) ==
    IF At(s, j) # "\"" THEN Rejected
    ELSE LET k == StringBody(s, j + 1, <<>>)
         IN  IF ~k.ok \/ At(s, WsEnd(s, k.i)) # ":" THEN Rejected
             ELSE LET val == ParseValue(s, WsEnd(s, k.i) + 1)
                  IN  IF ~val.ok THEN Rejected
                      ELSE LET d == WsEnd(s, val.i)
                               items == DictSet(acc, k.v.s, val.v)
                           IN  IF At(s, d) = "," THEN ParseMembers(s, WsEnd(s, d + 1), items)
                               ELSE IF At(s, d) = "}" THEN Parsed(JDoc(items), d + 1)
                               ELSE Rejected

\* The elements of an array from the value at j on.
ParseElements(s, j, acc) ==
    LET val == ParseValue(s, j)
    IN  IF ~val.ok THEN Rejected
        ELSE LET d == WsEnd(s, val.i)
             IN  IF At(s, d) = "," THEN ParseElements(s, d + 1, Append(acc, val.v))
                 ELSE IF At(s, d) = "]" THEN Parsed(JList(Append(acc, val.v)), d + 1)
                 ELSE Rejected

ParseValue(s, i0) ==
    LET i == WsEnd(s, i0)
    IN  IF At(s, i) = "\"" THEN StringBody(s, i + 1, <<>>)
        ELSE IF At(s, i) = "{"
        THEN IF At(s, WsEnd(s, i + 1)) = "}" THEN Parsed(JDoc(<<>>), WsEnd(s, i + 1) + 1)
             ELSE ParseMembers(s, WsEnd(s, i + 1), <<>>)
        ELSE IF At(s, i) = "["
        THEN IF At(s, WsEnd(s, i + 1)) = "]" THEN Parsed(JList(<<>>), WsEnd(s, i + 1) + 1)
             ELSE ParseElements(s, i + 1, <<>>)
        ELSE IF At(s, i) \in Digits \cup {"-"} THEN IntAt(s, i)
        ELSE IF HasAt(s, i, <<"n","u","l","l">>) THEN Parsed(JNull, i + 4)
        ELSE IF HasAt(s, i, <<"t","r","u","e">>) THEN Parsed(JBool(TRUE), i + 4)
        ELSE IF HasAt(s, i, <<"f","a","l","s","e">>) THEN Parsed(JBool(FALSE), i + 5)
        ELSE Rejected

\* json.loads(text); ok is false where it raises JSONDecodeError.
Loads(text) ==
    LET r == ParseValue(text, 1)
    IN  IF r.ok /\ WsEnd(text, r.i) > Len(text) THEN r ELSE Rejected

(* SECTION_META_PATTERN, lines 59-62 *)

NoMetaMatch == [ok |-> FALSE, start |-> 0, group |-> <<>>, end |-> 0]

\* Where a closing "\n\s*-->" can begin at or after position g.
Closings(s, g) ==
    {p \in g..Len(s) : s[p] = "\n" /\ HasAt(s, WsEnd(s, p + 1), <<"-","-",">">>)}

\* SECTION_META_PATTERN.match(s, i): "<!--", white space, the marker, white
\* space up to a newline (the greedy \s* gives back as little as it must),
\* the shortest group, and the closing.
MetaMatchAt(s, i) ==
    LET k == WsEnd(s, i + 4)
        h == k + 19
        newlines == {n \in h..(WsEnd(s, h) - 1) : s[n] = "\n" /\ Closings(s, n + 1) # {}}
    IN  IF ~(HasAt(s, i, <<"<","!","-","-">>) /\ HasAt(s, k, <<"R","E","P","O","R","T","_","S","E","C","T","I","O","N","_","M","E","T","A">>)) \/ newlines = {}
        THEN NoMetaMatch
        ELSE LET g == SetMax(newlines) + 1
                 p == SetMin(Closings(s, g))
             IN  [ok |-> TRUE, start |-> i, group |-> SubSeq(s, g, p - 1),
                  end |-> WsEnd(s, p + 1) + 2]

\* SECTION_META_PATTERN.search(s, from)
MetaSearch(s, from) ==
    LET at == {i \in from..Len(s) : MetaMatchAt(s, i).ok}
    IN  IF at = {} THEN NoMetaMatch ELSE MetaMatchAt(s, SetMin(at))

\* SECTION_META_PATTERN.sub('', s), from position from on
RECURSIVE MetaRemoved(_, _)
MetaRemoved(s, from) ==
    LET m == MetaSearch(s, from)
    IN  IF ~m.ok THEN SubSeq(s, from, Len(s))
        ELSE SubSeq(s, from, m.start - 1) \o MetaRemoved(s, m.end + 1)

(* section_meta.py *)

\* What "for note in data.get('notes', [])" iterates over.
NoteItems(notes) ==
    IF notes.t = "list" THEN notes.items
    ELSE IF notes.t = "str" THEN [i \in 1..Len(notes.s) |-> JStr(<<notes.s[i]>>)]
    ELSE IF notes.t = "obj" THEN [i \in 1..Len(notes.items) |-> JStr(notes.items[i].key)]
    ELSE <<notes>>

\* Whether _integration_hints_from_dict raises: data or a note has no get,
\* or the notes cannot be iterated.
HintsFromDictRaises(data) ==
    \/ data.t # "obj"
    \/ \E i \in 1..Len(NoteItems(ItemOf(data.items, <<"n","o","t","e","s">>, JList(<<>>)))) :
          NoteItems(ItemOf(data.items, <<"n","o","t","e","s">>, JList(<<>>)))[i].t # "obj"

\* _integration_hints_from_dict
IntegrationHintsFromDict(data) ==
    LET raw == NoteItems(ItemOf(data.items, <<"n","o","t","e","s">>, JList(<<>>)))
    IN  IntegrationHints(
            ItemOf(data.items, <<"a","v","o","i","d","_","f","i","g","u","r","e","s">>, JList(<<>>)),
            ItemOf(data.items, <<"c","a","n","o","n","i","c","a","l","_","f","i","g","u","r","e","s">>, JList(<<>>)),
            [i \in 1..Len(raw) |->
                IntegrationNote(ItemOf(raw[i].items, <<"t","y","p","e">>, JStr(<<>>)),
                                ItemOf(raw[i].items, <<"s","e","m","a","n","t","i","c","_","k","e","y">>, JNull),
                                ItemOf(raw[i].items, <<"r","e","a","s","o","n">>, JNull),
                                ItemOf(raw[i].items, <<"r","e","p","l","a","c","e","m","e","n","t">>, JNull))])

\* The note_dict of lines 87-93.
NoteDict(note) ==
    JDoc(<<[key |-> <<"t","y","p","e">>, value |-> note.type]>>
         \o (IF note.semantic_key.t # "null"
             THEN <<[key |-> <<"s","e","m","a","n","t","i","c","_","k","e","y">>, value |-> note.semantic_key]>> ELSE <<>>)
         \o (IF note.reason.t # "null"
             THEN <<[key |-> <<"r","e","a","s","o","n">>, value |-> note.reason]>> ELSE <<>>)
         \o (IF note.replacement.t # "null"
             THEN <<[key |-> <<"r","e","p","l","a","c","e","m","e","n","t">>, value |-> note.replacement]>> ELSE <<>>))

\* _integration_hints_to_dict
IntegrationHintsToDict(hints) ==
    JDoc(<<[key |-> <<"a","v","o","i","d","_","f","i","g","u","r","e","s">>, value |-> hints.avoid_figures],
           [key |-> <<"c","a","n","o","n","i","c","a","l","_","f","i","g","u","r","e","s">>, value |-> hints.canonical_figures],
           [key |-> <<"n","o","t","e","s">>,
            value |-> JList([i \in 1..Len(hints.notes) |-> NoteDict(hints.notes[i])])]>>)

MetaNone == [kind |-> "None", meta |-> SectionMetaComment(JNull, JNull, NoHints)]

MetaRaises == [kind |-> "raises", meta |-> SectionMetaComment(JNull, JNull, NoHints)]

\* Lines 123-134 for the value json.loads returned.  A list or a string
\* answers the two "in" tests too, and is then indexed with a string.
MetaFromData(data) ==
    IF data.t = "obj"
    THEN IF ~HasKey(data.items, <<"s","e","c","t","i","o","n","_","i","d">>) \/ ~HasKey(data.items, <<"v","e","r","s","i","o","n">>)
         THEN MetaNone
         ELSE IF ~(HasKey(data.items, <<"i","n","t","e","g","r","a","t","i","o","n","_","h","i","n","t","s">>)
                   /\ TruthyValue(ItemOf(data.items, <<"i","n","t","e","g","r","a","t","i","o","n","_","h","i","n","t","s">>, JNull)))
         THEN [kind |-> "meta",
               meta |-> SectionMetaComment(ItemOf(data.items, <<"s","e","c","t","i","o","n","_","i","d">>, JNull),
                                           ItemOf(data.items, <<"v","e","r","s","i","o","n">>, JNull), NoHints)]
         ELSE IF HintsFromDictRaises(ItemOf(data.items, <<"i","n","t","e","g","r","a","t","i","o","n","_","h","i","n","t","s">>, JNull))
         THEN MetaRaises
         ELSE [kind |-> "meta",
               meta |-> SectionMetaComment(
                            ItemOf(data.items, <<"s","e","c","t","i","o","n","_","i","d">>, JNull),
                            ItemOf(data.items, <<"v","e","r","s","i","o","n">>, JNull),
                            IntegrationHintsFromDict(
                                ItemOf(data.items, <<"i","n","t","e","g","r","a","t","i","o","n","_","h","i","n","t","s">>, JNull)))]
    ELSE IF data.t = "list"
    THEN IF \A k \in {<<"s","e","c","t","i","o","n","_","i","d">>, <<"v","e","r","s","i","o","n">>} :
                \E i \in 1..Len(data.items) :
                    IF data.items[i].t = "str" THEN data.items[i].s = k ELSE FALSE
         THEN MetaRaises ELSE MetaNone
    ELSE IF data.t = "str"
    THEN IF IsSubstring(<<"s","e","c","t","i","o","n","_","i","d">>, data.s) /\ IsSubstring(<<"v","e","r","s","i","o","n">>, data.s)
         THEN MetaRaises ELSE MetaNone
    ELSE MetaRaises

\* parse_section_meta
ParseSectionMeta(text) ==
    LET match == MetaSearch(text, 1)
    IN  IF ~match.ok THEN MetaNone
        ELSE LET data == Loads(Strip(match.group, Space))
             IN  IF ~data.ok THEN MetaNone ELSE MetaFromData(data.v)

\* serialize_section_meta
SerializeSectionMeta(meta) ==
    LET data == JDoc(<<[key |-> <<"s","e","c","t","i","o","n","_","i","d">>, value |-> meta.section_id],
                       [key |-> <<"v","e","r","s","i","o","n">>, value |-> meta.version]>>
                     \o (IF ~meta.integration_hints.none
                         THEN <<[key |-> <<"i","n","t","e","g","r","a","t","i","o","n","_","h","i","n","t","s">>,
                                 value |-> IntegrationHintsToDict(meta.integration_hints)]>>
                         ELSE <<>>))
    IN  <<"<","!","-","-"," ","R","E","P","O","R","T","_","S","E","C","T","I","O","N","_","M","E","T","A">> \o <<"\n">> \o Dumps(data, 0) \o <<"\n">> \o <<"-","-",">">>

\* The body extract_section_meta_and_body returns.
BodyWithoutMeta(text) == Strip(MetaRemoved(text, 1), Space)

NoText == [raises |-> FALSE, text |-> <<>>]

\* inject_section_meta: the text returned, or raises when
\* extract_section_meta_and_body fails to parse the comment it finds.
InjectSectionMeta(text, meta) ==
    IF ParseSectionMeta(text).kind = "raises" THEN [raises |-> TRUE, text |-> <<>>]
    ELSE IF BodyWithoutMeta(text) # <<>>
    THEN [raises |-> FALSE,
          text |-> SerializeSectionMeta(meta) \o <<"\n", "\n">> \o BodyWithoutMeta(text)]
    ELSE [raises |-> FALSE, text |-> SerializeSectionMeta(meta)]

MetaIdle ==
    /\ smMeta = SectionMetaComment(JNull, JNull, NoHints)
    /\ smContent = <<>>
    /\ smSerialized = <<>>
    /\ smParsed = MetaNone
    /\ smInjected = NoText
    /\ smAgain = NoText
    /\ smPc = "idle"

\* The metas and the section contents of the callers.
AnalysisHints ==
    IntegrationHints(
        JList(<<JStr(<<"f","i","g","1">>), JStr(<<"f","i","g","2">>)>>),
        JList(<<JDoc(<<[key |-> <<"i","d">>, value |-> JStr(<<"F","1">>)],
                       [key |-> <<"o","w","n","e","r","_","s","e","c","t","i","o","n">>, value |-> JStr(<<"r","e","s","u","l","t","s">>)]>>)>>),
        <<IntegrationNote(JStr(<<"r","e","p","l","a","c","e","d","_","w","i","t","h","_","r","e","f">>), JStr(<<"f","i","g","1">>), JNull,
                          JDoc(<<[key |-> <<"i","d">>, value |-> JStr(<<"F","1">>)]>>)),
          IntegrationNote(JStr(<<"n","o","t","e">>), JNull, JStr(<<"S","a","i","d"," ","\"","t","w","i","c","e","\"">>), JNull)>>)

Metas ==
    {SectionMetaComment(JStr(<<"r","e","s","u","l","t","s">>), JInt(2), NoHints),
     SectionMetaComment(JStr(<<"a","-","-",">","b">>), JInt(10), NoHints),
     SectionMetaComment(JStr(<<"t","e","s","t">>), JInt(1),
                        IntegrationHints(JList(<<>>), JList(<<>>), <<>>)),
     SectionMetaComment(JStr(<<"a","n","a","l","y","s","i","s">>), JInt(5), AnalysisHints)}

OldMeta == <<"<","!","-","-"," ","R","E","P","O","R","T","_","S","E","C","T","I","O","N","_","M","E","T","A","\n","{","\"","s","e","c","t","i","o","n","_","i","d","\"",":"," ","\"","o","l","d","\"",","," ","\"","v","e","r","s","i","o","n","\"",":"," ","1","}","\n","-","-",">">>

OddMeta ==
    <<"<","!","-","-","R","E","P","O","R","T","_","S","E","C","T","I","O","N","_","M","E","T","A"," ","\n","\n","{","\"","s","e","c","t","i","o","n","_","i","d","\"",":"," ","\"","s","\"",","," ","\"","v","e","r","s","i","o","n","\"",":"," ","1",","," ","\"","i","n","t","e","g","r","a","t","i","o","n","_","h","i","n","t","s","\"",":"," ","\"","x","\"","}","\n"," "," ","-","-",">">>

Body == <<"#"," ","R","e","s","u","l","t","s","\n","\n","O","l","d"," ","c","o","n","t","e","n","t",".","\n">>

Contents ==
    {<<>>,
     Body,
     OldMeta \o <<"\n","\n">> \o Body,
     <<"I","n","t","r","o","\n","\n">> \o OldMeta \o <<"\n","\n">> \o Body,
     OldMeta \o <<"\n">> \o OldMeta \o <<"\n">> \o Body,
     <<"<","!","-","-"," ","R","E","P","O","R","T","_","S","E","C","T","I","O","N","_","M","E","T","A"," ","{","\"","s","e","c","t","i","o","n","_","i","d","\"",":"," ","\"","o","l","d","\"","}"," ","-","-",">","\n">> \o Body,
     <<"<","!","-","-"," ","a"," ","c","o","m","m","e","n","t"," ","-","-",">","\n">> \o Body \o <<"\n","-","-",">","\n">>,
     OddMeta \o Body,
     <<"<","!","-","-"," ","R","E","P","O","R","T","_">> \o OldMeta \o <<"S","E","C","T","I","O","N","_","M","E","T","A","\n","{","\"","s","e","c","t","i","o","n","_","i","d","\"",":"," ","\"","x","\"",","," ","\"","v","e","r","s","i","o","n","\"",":"," ","9","}","\n","-","-",">","\n","\n">> \o Body}

Serialize ==
    /\ smPc = "start"
    /\ smSerialized' = SerializeSectionMeta(smMeta)
    /\ smPc' = "serialized"
    /\ UNCHANGED <<smMeta, smContent, smParsed, smInjected, smAgain>>
    /\ UNCHANGED <<outlineVars, catalogVars, loaderVars, mapperVars, slugVars, reviewVars, readerVars, stateVars, sidecarVars>>

ParseSerialized ==
    /\ smPc = "serialized"
    /\ smParsed' = ParseSectionMeta(smSerialized)
    /\ smPc' = "parsed"
    /\ UNCHANGED <<smMeta, smContent, smSerialized, smInjected, smAgain>>
    /\ UNCHANGED <<outlineVars, catalogVars, loaderVars, mapperVars, slugVars, reviewVars, readerVars, stateVars, sidecarVars>>

Inject ==
    /\ smPc = "parsed"
    /\ smInjected' = InjectSectionMeta(smContent, smMeta)
    /\ smPc' = "injected"
    /\ UNCHANGED <<smMeta, smContent, smSerialized, smParsed, smAgain>>
    /\ UNCHANGED <<outlineVars, catalogVars, loaderVars, mapperVars, slugVars, reviewVars, readerVars, stateVars, sidecarVars>>

InjectAgain ==
    /\ smPc = "injected"
    /\ ~smInjected.raises
    /\ smAgain' = InjectSectionMeta(smInjected.text, smMeta)
    /\ smPc' = "done"
    /\ UNCHANGED <<smMeta, smContent, smSerialized, smParsed, smInjected>>
    /\ UNCHANGED <<outlineVars, catalogVars, loaderVars, mapperVars, slugVars, reviewVars, readerVars, stateVars, sidecarVars>>

(***************************************************************************)
(* Sections of an outline and the section files written from them          *)
(* (parse_outline, lines 97-131, and orchestrator.py)                      *)
(***************************************************************************)

NoComment == [ok |-> FALSE, start |-> 0, text |-> <<>>, end |-> 0]

\* The first index at or after p where lit begins (Len(s) + 1 if none).
Find(s, lit, p) ==
    SetMin({j \in p..(Len(s) + 1) : j = Len(s) + 1 \/ HasAt(s, j, lit)})

\* instruction_pattern and review_pattern, <!--\s*LABEL\s*(.*?)\s*-->, tried
\* at i: text is group(1).strip(), end the index of the closing ">".  The
\* lazy group and the white space around it end at the first "-->" after
\* the label.
CommentAt(s, i, label) ==
    LET k == WsEnd(s, i + 4)
        h == k + Len(label)
    IN  IF HasAt(s, i, <<"<","!","-","-">>) /\ HasAt(s, k, label) /\ Find(s, <<"-","-",">">>, h) <= Len(s)
        THEN [ok |-> TRUE, start |-> i,
              text |-> Strip(SubSeq(s, h, Find(s, <<"-","-",">">>, h) - 1), Space),
              end |-> Find(s, <<"-","-",">">>, h) + 2]
        ELSE NoComment

\* pattern.search(s) from position from on
CommentSearch(s, label, from) ==
    LET at == {i \in from..Len(s) : CommentAt(s, i, label).ok}
    IN  IF at = {} THEN NoComment ELSE CommentAt(s, SetMin(at), label)

\* pattern.sub("", s), from position from on
RECURSIVE CommentsRemoved(_, _, _)
CommentsRemoved(s, label, from) ==
    LET m == CommentSearch(s, label, from)
    IN  IF ~m.ok THEN SubSeq(s, from, Len(s))
        ELSE SubSeq(s, from, m.start - 1) \o CommentsRemoved(s, label, m.end + 1)

InstructionLabel == <<"S","e","c","t","i","o","n"," ","i","n","s","t","r","u","c","t","i","o","n","s",":">>

ReviewLabel == <<"R","e","v","i","e","w"," ","c","o","m","m","e","n","t","s",":">>

\* content[start:end] of lines 97-99 for heading i of the list hs
SectionText(c, hs, i) ==
    SubSeq(c, hs[i].end, IF i + 1 <= Len(hs) THEN hs[i + 1].start - 1 ELSE Len(c))

\* Lines 101-131: the Section of a heading with the section text t.
MakeSection(section_id, title, level, parent_id, t) ==
    LET review_comments == CommentSearch(t, ReviewLabel, 1).text
        review == ParseReviewBlock(review_comments)
    IN  [id |-> section_id, title |-> title, level |-> level,
         instructions |-> CommentSearch(t, InstructionLabel, 1).text,
         review_comments |-> review_comments,
         review_author |-> review.author,
         review_ratings |-> review.ratings,
         review_notes |-> review.notes,
         parent_id |-> parent_id,
         content |-> Strip(CommentsRemoved(CommentsRemoved(t, InstructionLabel, 1),
                                           ReviewLabel, 1), Space)]

\* The review block written for a section without review comments, and the
\* example after it (lines 636-653).
ReviewTemplate ==
    <<"<","!","-","-"," ","R","e","v","i","e","w"," ","c","o","m","m","e","n","t","s",":","\n","A","U","T","H","O","R",":"," ","[","R","e","v","i","e","w","e","r"," ","N","a","m","e","]","\n","R","A","T","I","N","G",":"," ","a","c","c","u","r","a","c","y","=",","," ","c","o","m","p","l","e","t","e","n","e","s","s","=",","," ","c","l","a","r","i","t","y","=","\n","N","O","T","E","S",":","\n","-","-",">">>

ExampleBlock(funny) ==
    <<"<","!","-","-"," ","E","X","A","M","P","L","E"," ","-"," ","L","L","M"," ","I","G","N","O","R","E",":","\n","A","U","T","H","O","R",":"," ">> \o funny.name
        \o <<"\n","R","A","T","I","N","G",":"," ","a","c","c","u","r","a","c","y","=","4",","," ","c","o","m","p","l","e","t","e","n","e","s","s","=","3",","," ","c","l","a","r","i","t","y","=","5","\n","N","O","T","E","S",":"," ">> \o funny.notes
        \o <<"\n","-","-",">">>

\* What generate_funny_reviewer_example gives: its fallback when the call
\* fails, its defaults when the answer names nothing, and an answer.
FunnyExamples ==
    {[name |-> <<"S","k","e","p","t","i","c","a","l"," ","S","t","e","v","e"," ","M","c","D","o","u","b","t","f","a","c","e">>,
      notes |-> <<"I","'","v","e"," ","s","e","e","n"," ","b","e","t","t","e","r"," ","a","n","a","l","y","s","i","s"," ","o","n"," ","t","h","e"," ","b","a","c","k"," ","o","f"," ","a"," ","c","e","r","e","a","l"," ","b","o","x",","," ","b","u","t"," ","a","t"," ","l","e","a","s","t"," ","t","h","i","s"," ","o","n","e"," ","h","a","s"," ","c","h","a","r","t","s",".">>],
     [name |-> <<"G","r","u","m","p","y"," ","M","c","R","e","v","i","e","w","e","r","f","a","c","e">>,
      notes |-> <<"I"," ","s","u","p","p","o","s","e"," ","t","h","i","s"," ","t","e","c","h","n","i","c","a","l","l","y"," ","c","o","u","n","t","s"," ","a","s"," ","w","r","i","t","i","n","g",".">>]}

\* Lines 656-662: the body without the heading the writer repeated.
BodyOf(heading, title, body) ==
    LET stripped == Strip(body, Space)
        full == heading \o <<" ">> \o title
    IN  IF StartsWith(stripped, full)
        THEN Strip(SubSeq(stripped, Len(full) + 1, Len(stripped)), Space)
        ELSE IF StartsWith(stripped, heading \o <<" ">>) /\ "\n" \in Range(stripped)
        THEN Strip(SubSeq(stripped, Find(stripped, <<"\n">>, 1), Len(stripped)), Space)
        ELSE stripped

RECURSIVE Hashes(_)
Hashes(n) == IF n <= 0 THEN <<>> ELSE <<"#">> \o Hashes(n - 1)

\* _format_section_output
FormatSectionOutput(section, body, funny) ==
    LET heading == Hashes(section.level)
    IN  JoinLines(
            <<heading \o <<" ">> \o section.title, <<>>>>
            \o (IF section.instructions # <<>>
                THEN <<<<"<","!","-","-"," ","S","e","c","t","i","o","n"," ","i","n","s","t","r","u","c","t","i","o","n","s",":"," ">> \o section.instructions \o <<" ","-","-",">">>, <<>>>>
                ELSE <<>>)
            \o (IF section.review_comments # <<>>
                THEN <<<<"<","!","-","-"," ","R","e","v","i","e","w"," ","c","o","m","m","e","n","t","s",":","\n">> \o section.review_comments \o <<"\n","-","-",">">>>>
                ELSE <<ReviewTemplate, <<>>, ExampleBlock(funny)>>)
            \o <<<<>>, BodyOf(heading, section.title, body), <<>>>>)

\* The lines the outlines of the model are made of: headings of three levels
\* (two of them with the same slug), a title that is all punctuation, a lone
\* hash, body text, and seven hashes.
OutlineLines ==
    {<<"#"," ","A">>, <<"#","#"," ","B">>, <<"#","#","#"," ","A">>, <<"#","#"," ","!">>, <<"#">>, <<"t","e","x","t">>, <<"#","#","#","#","#","#","#"," ","A">>}

MaxLines == 4

Outlines == {JoinLines(ls) : ls \in SeqsUpTo(OutlineLines, MaxLines)}

OutlineIdle ==
    /\ content = <<>>
    /\ headings = <<>>
    /\ idx = 0
    /\ parent_stack = <<>>
    /\ sections = <<>>
    /\ opc = "idle"

\* content = path.read_text(); headings = list(heading_pattern.finditer(content))
ReadOutline ==
    /\ opc = "start"
    /\ headings' = FindHeadings(content, 1)
    /\ idx' = 1
    /\ opc' = "loop"
    /\ UNCHANGED <<content, parent_stack, sections>>
    /\ UNCHANGED <<catalogVars, loaderVars, mapperVars, slugVars, reviewVars, readerVars, stateVars, metaVars, sidecarVars>>

\* One iteration of the loop over the headings.
ParseHeading ==
    /\ opc = "loop"
    /\ idx <= Len(headings)
    /\ LET level == headings[idx].level
           title == Strip(headings[idx].title, Space)
           section_id == slugify(title)
           popped == PopStack(parent_stack, level)
       IN  /\ parent_stack' = Append(popped, <<level, section_id>>)
           /\ sections' = Append(sections,
                                 MakeSection(section_id, title, level, ParentOf(popped),
                                             SectionText(content, headings, idx)))
    /\ idx' = idx + 1
    /\ UNCHANGED <<content, headings, opc>>
    /\ UNCHANGED <<catalogVars, loaderVars, mapperVars, slugVars, reviewVars, readerVars, stateVars, metaVars, sidecarVars>>

\* return sections
ReturnSections ==
    /\ opc = "loop"
    /\ idx > Len(headings)
    /\ opc' = "done"
    /\ UNCHANGED <<content, headings, idx, parent_stack, sections>>
    /\ UNCHANGED <<catalogVars, loaderVars, mapperVars, slugVars, reviewVars, readerVars, stateVars, metaVars, sidecarVars>>

NoOutlineSection ==
    MakeSection(<<>>, <<>>, 0, None, <<>>)

SidecarIdle ==
    /\ scPhase = "idle"
    /\ scSection = NoOutlineSection
    /\ scBody = <<>>

\* The lines of the outlines that are written out: headings, an instruction
\* comment, a review block, and text.
SidecarLines ==
    {<<"#"," ","A">>, <<"#","#"," ","B"," ","b">>,
     <<"<","!","-","-"," ","S","e","c","t","i","o","n"," ","i","n","s","t","r","u","c","t","i","o","n","s",":"," ","S","a","y"," ","w","h","y","."," ","-","-",">">>,
     <<"<","!","-","-"," ","R","e","v","i","e","w"," ","c","o","m","m","e","n","t","s",":","\n","A","U","T","H","O","R",":"," ","A","n","n","\n","R","A","T","I","N","G",":"," ","a","c","c","u","r","a","c","y","=","4",","," ","c","l","a","r","i","t","y","=","\n","N","O","T","E","S",":"," ","G","o","o","d",".","\n","M","o","r","e",".","\n","-","-",">">>,
     <<"t","e","x","t">>}

MaxSidecarLines == 3

SidecarOutlines == {JoinLines(ls) : ls \in SeqsUpTo(SidecarLines, MaxSidecarLines)}

\* The body texts the writer returns: nothing, a paragraph, and a paragraph
\* under the repeated heading of the section.
SectionBodies(section) ==
    {<<>>, <<"S","o","m","e"," ","t","e","x","t",".","\n">>,
     Hashes(section.level) \o <<" ">> \o section.title \o <<"\n","\n","S","o","m","e"," ","t","e","x","t",".">>}

\* The section file is written (_format_section_output) and parse_outline
\* is called on it.
WriteSection ==
    /\ scPhase = "outline"
    /\ opc = "done"
    /\ \E k \in 1..Len(sections), funny \in FunnyExamples :
          \E body \in SectionBodies(sections[k]) :
              /\ scSection' = sections[k]
              /\ scBody' = body
              /\ content' = FormatSectionOutput(sections[k], body, funny)
    /\ scPhase' = "written"
    /\ headings' = <<>>
    /\ idx' = 0
    /\ parent_stack' = <<>>
    /\ sections' = <<>>
    /\ opc' = "start"
    /\ UNCHANGED <<catalogVars, loaderVars, mapperVars, slugVars, reviewVars, readerVars, stateVars, metaVars>>

(***************************************************************************)
(* parse_outline on every outline of the model                             *)
(***************************************************************************)

InitOutline ==
    /\ content \in Outlines
    /\ headings = <<>>
    /\ idx = 0
    /\ parent_stack = <<>>
    /\ sections = <<>>
    /\ opc = "start"
    /\ CatalogIdle
    /\ LoaderIdle
    /\ MapperIdle
    /\ SlugIdle
    /\ ReviewIdle
    /\ ReaderIdle
    /\ StateIdle
    /\ MetaIdle
    /\ SidecarIdle

NextOutline ==
    \/ ReadOutline
    \/ ParseHeading
    \/ ReturnSections

SpecOutline == InitOutline /\ [][NextOutline]_vars

\* C1: when parse_outline returns, it returns one section per heading of the
\* file, in document order, and at every moment each section built so far
\* that has a parent_id p is preceded by a section with id p whose level is
\* strictly less than its own.
OutlineSectionsInOrder ==
    /\ \A i \in 1..Len(sections) :
          sections[i].parent_id # None =>
              \E j \in 1..(i - 1) :
                  /\ sections[j].id = sections[i].parent_id
                  /\ sections[j].level < sections[i].level
    /\ opc = "done" =>
          /\ Len(sections) = Len(headings)
          /\ \A i \in 1..Len(sections) :
                /\ sections[i].level = headings[i].level
                /\ sections[i].title = Strip(headings[i].title, Space)
                /\ \A j \in 1..(i - 1) : headings[j].end <= headings[i].end

\* A parse that returned three sections or more, one with a parent and a later
\* one without.
OutlineNestedWitness ==
    /\ opc = "done"
    /\ Len(sections) >= 3
    /\ \E i, j \in 1..Len(sections) :
          /\ i < j
          /\ sections[i].parent_id # None
          /\ sections[j].parent_id = None

\* C2: the parent_id of every section is the id of the nearest preceding
\* section of strictly lower level, and None exactly when there is none.
ParentIsNearestLowerLevel ==
    \A i \in 1..Len(sections) :
        LET lower == {j \in 1..(i - 1) : sections[j].level < sections[i].level}
        IN  /\ (sections[i].parent_id = None) <=> (lower = {})
            /\ lower # {} => sections[i].parent_id = sections[SetMax(lower)].id

\* A section whose parent is not the heading right before it, after deeper
\* headings were popped from the stack.
ParentSkipsWitness ==
    /\ opc = "done"
    /\ \E i \in 1..Len(sections) :
          LET lower == {j \in 1..(i - 1) : sections[j].level < sections[i].level}
          IN  /\ lower # {}
              /\ SetMax(lower) < i - 1
              /\ sections[i - 1].level > sections[i].level

(***************************************************************************)
(* DataCatalog(data_root) on every data root of the model                  *)
(***************************************************************************)

InitCatalog ==
    /\ disk \in Disks \cup {NoRoot}
    /\ specsText \in IF disk.exists THEN SpecTexts \cup {None} ELSE {None}
    /\ \A f \in disk.files : f.dir \in disk.dirs
    /\ plot_specs = <<>>
    /\ partIdx = 1
    /\ charts = <<>>
    /\ categories = <<>>
    /\ toScan = <<>>
    /\ cpc = "load"
    /\ OutlineIdle
    /\ LoaderIdle
    /\ MapperIdle
    /\ SlugIdle
    /\ ReviewIdle
    /\ ReaderIdle
    /\ StateIdle
    /\ MetaIdle
    /\ SidecarIdle

NextCatalog ==
    \/ LoadSpecsMissing
    \/ LoadSpecPart
    \/ LoadSpecsEnd
    \/ ScanNextCategory
    \/ ScanEnd

SpecCatalog == InitCatalog /\ [][NextCatalog]_vars

\* The objects of the model that are well formed and hold a non-empty title.
TitledObjects ==
    {o \in SpecObjects : JsonLoads(o).ok /\ Get(JsonLoads(o).obj, "title", <<>>) # <<>>}

\* C9: once _load_plot_specs is through a file made of N >= 1 well-formed
\* objects with distinct non-empty titles, written back to back, the keys of
\* the mapping are exactly those N titles.
PlotSpecsKeysAreTitles ==
    (cpc \in {"scan", "done"} /\ specsText # None) =>
        \A os \in SeqsUpTo(TitledObjects, MaxSpecs) :
            LET titles == {JsonLoads(os[i]).obj["title"] : i \in 1..Len(os)}
            IN  (os # <<>> /\ specsText = JoinLines(os) /\ Cardinality(titles) = Len(os))
                    => DictKeys(plot_specs) = titles

\* The (category folder, filename stem) pairs of the chart files on disk.
ChartsOnDisk ==
    {<<f.dir, Stem(f.name)>> :
        f \in {g \in disk.files : g.dir[1] # "." /\ Suffix(g.name) \in ChartSuffixes}}

\* The (category, id) pairs list_charts(category) returns.
Listed(category) ==
    {<<ListCharts(charts, category)[i].category, ListCharts(charts, category)[i].id>> :
        i \in 1..Len(ListCharts(charts, category))}

\* C10: after construction list_charts() lists one chart for every (category
\* folder, filename stem) pair on disk, and list_charts(category) lists every
\* chart of that category.
CatalogListsEveryChart ==
    cpc = "done" =>
        /\ Listed(None) = ChartsOnDisk
        /\ \A d \in DirNames : Listed(d) = {p \in ChartsOnDisk : p[1] = d}

(***************************************************************************)
(* SectionMapper(catalog, mapping_path) on every mapping file of the model *)
(***************************************************************************)

InitLoad ==
    /\ mapFile \in LoaderDocs
    /\ static_mappings = <<>>
    /\ ldIdx = 1
    /\ ldPc = "start"
    /\ OutlineIdle
    /\ CatalogIdle
    /\ MapperIdle
    /\ SlugIdle
    /\ ReviewIdle
    /\ ReaderIdle
    /\ StateIdle
    /\ MetaIdle
    /\ SidecarIdle

NextLoad ==
    \/ LoadMissing
    \/ LoadDecodeError
    \/ LoadNotObject
    \/ LoadNextEntry
    \/ LoadEntryRaises
    \/ LoadEnd

SpecLoad == InitLoad /\ [][NextLoad]_vars

\* C8: constructing a SectionMapper never raises because of what the mapping
\* file holds, and for text that is not JSON, for JSON that is no object and
\* for an object with an entry that is no object the mapper ends up with no
\* configuration.
ConstructionNeverRaises ==
    /\ ldPc # "raised"
    /\ (/\ ldPc = "done"
        /\ \/ mapFile.t \notin {"nofile", "obj"}
           \/ (mapFile.t = "obj" /\ \E i \in 1..Len(mapFile.items) :
                                        mapFile.items[i].value.t # "obj"))
       => DOMAIN GetAllMappings(static_mappings) = {}

(***************************************************************************)
(* Calls of a SectionMapper built on every catalog and mapping file of the *)
(* model                                                                   *)
(***************************************************************************)

InitMapper ==
    /\ disk \in MapperDisks
    /\ specsText = None
    /\ plot_specs = <<>>
    /\ partIdx = 1
    /\ charts = ScanAll(<<>>, disk.files, <<>>, CategoryFolders(disk))
    /\ categories = CategoryFolders(disk)
    /\ toScan = <<>>
    /\ cpc = "done"
    /\ mapFile \in MapperDocs
    /\ static_mappings = LoadItems(<<>>, mapFile.items)
    /\ ldIdx = Len(mapFile.items) + 1
    /\ ldPc = "done"
    /\ MapperIdle
    /\ SlugIdle
    /\ ReviewIdle
    /\ ReaderIdle
    /\ OutlineIdle
    /\ StateIdle
    /\ MetaIdle
    /\ SidecarIdle

NextMapper ==
    \/ GetChartsForSection
    \/ GetChartsForSectionObj
    \/ SelectExplicit
    \/ SelectPattern
    \/ SelectAuto
    \/ SelectNothing
    \/ ResolveBreak
    \/ ResolveEnd
    \/ CallReturns

SpecMapper == InitMapper /\ [][NextMapper]_vars

\* The call in progress is for a section the mapping file has an entry for.
Mapped == call.kind # "none" /\ call.section.id \in DOMAIN static_mappings

\* No two charts of the list have the same category/id.
DistinctCharts(list) ==
    \A i, j \in 1..Len(list) :
        (list[i].category = list[j].category /\ list[i].id = list[j].id) => i = j

\* The charts a selector can contribute to the call in progress.
Candidates(sel) ==
    IF TruthyStr(sel.id)
    THEN {LookupChart(charts, sel.id)} \ {NoChart}
    ELSE IF TruthyStr(sel.pattern) THEN Range(MatchPattern(charts, sel.pattern))
    ELSE IF sel.auto THEN Range(AutoMap(charts, call))
    ELSE {}

\* C3: while the static mapping resolution runs, every step keeps the charts
\* added so far where they are (the list only grows at its end), the list
\* never holds a chart twice (keyed by category/id), and the list returned is
\* that list.
ResolvedListHasNoDuplicates ==
    [][mpc = "resolve" =>
          /\ IsPrefix(result, result')
          /\ DistinctCharts(result')
          /\ mpc' = "done" => ret' = result]_vars

\* A list returned with no section cap in the way that holds a chart two
\* selectors of the mapping both select.
DuplicateReferenceWitness ==
    /\ mpc = "done"
    /\ Mapped
    /\ Mapping.max_charts.none
    /\ Len(ret) >= 2
    /\ \E i, j \in 1..Len(Mapping.selectors) :
          /\ i < j
          /\ Candidates(Mapping.selectors[i]) \cap Candidates(Mapping.selectors[j])
                 \cap Range(ret) # {}

\* C4: a call for a section whose mapping sets max_charts = m returns at most
\* m charts.
MaxChartsCapsResult ==
    (mpc = "done" /\ Mapped /\ ~Mapping.max_charts.none)
        => Len(ret) <= Mapping.max_charts.v

\* C5: the list only grows at its end as the selectors are taken in
\* declaration order, and once it holds max_charts charts no later selector
\* adds a chart.
SelectorsInDeclarationOrder ==
    [][mpc = "resolve" =>
          /\ IsPrefix(result, result')
          /\ selIdx' >= selIdx
          /\ (~Mapping.max_charts.none /\ Len(result) >= Mapping.max_charts.v)
                 => result' = result]_vars

\* The keywords and the score the auto-matcher gives a chart in the call in
\* progress.
CallKeywords ==
    IF call.kind = "obj"
    THEN get_section_keywords(call.section) \cup ExtractKeywordsFromId(call.section.id)
    ELSE ExtractKeywordsFromId(call.section.id)

CallScore(chart) ==
    ScoreChart(chart, CallKeywords, call.section.id, GetCategoryMatches(call.section.id))

\* a comes before b in (score descending, chart id ascending)
RanksBefore(a, b) ==
    \/ CallScore(a) > CallScore(b)
    \/ (CallScore(a) = CallScore(b) /\ StrLess(a.id, b.id))

\* C6: pure auto-matching returns at most 5 charts of the catalog, each with a
\* score above 0, in (score descending, chart id ascending) order, and no
\* chart it leaves out ranks before one it returns.
AutoMatchTopFive ==
    (mpc = "done" /\ ~Mapped) =>
        /\ Len(ret) <= 5
        /\ \A i \in 1..Len(ret) :
              /\ ret[i] \in Range(ListCharts(charts, None))
              /\ CallScore(ret[i]) > 0
              /\ \A j \in (i + 1)..Len(ret) : RanksBefore(ret[i], ret[j])
              /\ \A c \in Range(ListCharts(charts, None)) \ Range(ret) :
                    ~RanksBefore(c, ret[i])

\* Five charts returned, two of them with equal scores, and a chart with a
\* score above 0 left out.
AutoMatchCutWitness ==
    /\ mpc = "done"
    /\ ~Mapped
    /\ Len(ret) = 5
    /\ \E i \in 1..4 : CallScore(ret[i]) = CallScore(ret[i + 1])
    /\ \E c \in Range(ListCharts(charts, None)) \ Range(ret) : CallScore(c) > 0

\* C7: get_charts_for_section_obj returns the auto-matcher's list when the
\* section has no entry in the static mapping; when it has one, every chart
\* returned comes from a selector of that entry, so the list is empty when
\* the selectors resolve to no chart.
FallbackOnlyWithoutEntry ==
    (mpc = "done" /\ call.kind = "obj") =>
        IF call.section.id \in DOMAIN static_mappings
        THEN \A i \in 1..Len(ret) :
                 \E k \in 1..Len(Mapping.selectors) : ret[i] \in Candidates(Mapping.selectors[k])
        ELSE ret = AutoMapSectionWithContext(charts, call.section)

\* A section with an entry whose selectors resolve to no chart, while the
\* auto-matcher has charts for it.
EmptyEntryWitness ==
    /\ mpc = "done"
    /\ call.kind = "obj"
    /\ Mapped
    /\ Mapping.selectors # <<>>
    /\ ret = <<>>
    /\ AutoMapSectionWithContext(charts, call.section) # <<>>

(***************************************************************************)
(* slugify(slugify(title)) on every title of the model                     *)
(***************************************************************************)

InitSlug ==
    /\ slugIn \in Titles
    /\ slugOut = None
    /\ slugAgain = None
    /\ slugPc = "start"
    /\ OutlineIdle
    /\ CatalogIdle
    /\ LoaderIdle
    /\ MapperIdle
    /\ ReviewIdle
    /\ ReaderIdle
    /\ StateIdle
    /\ MetaIdle
    /\ SidecarIdle

NextSlug ==
    \/ Slugify
    \/ SlugifyAgain

SpecSlug == InitSlug /\ [][NextSlug]_vars

\* C11: slugify gives its own result back unchanged, and its result neither
\* starts nor ends with a hyphen nor holds two hyphens in a row.
SlugifyIdempotent ==
    /\ slugPc \in {"once", "twice"} =>
          /\ slugOut = <<>> \/ (slugOut[1] # "-" /\ slugOut[Len(slugOut)] # "-")
          /\ \A i \in 1..(Len(slugOut) - 1) : ~(slugOut[i] = "-" /\ slugOut[i + 1] = "-")
    /\ slugPc = "twice" => slugAgain = slugOut

\* A title with a capital and a run of separators inside, slugified twice.
SlugifyMessyWitness ==
    /\ slugPc = "twice"
    /\ slugOut # slugIn
    /\ Len(slugOut) >= 3
    /\ "-" \in Range(slugOut)
    /\ "A" \in Range(slugIn)
    /\ \E i \in 1..(Len(slugIn) - 1) : {slugIn[i], slugIn[i + 1]} \subseteq {"-", "_", " ", "\t"}

(***************************************************************************)
(* parse_review_block on every review block of the model                   *)
(***************************************************************************)

InitReview ==
    /\ reviewText \in ReviewTexts
    /\ reviewLines = <<>>
    /\ lineIdx = 0
    /\ author = <<>>
    /\ ratings = <<>>
    /\ notes_started = FALSE
    /\ notes_lines = <<>>
    /\ reviewRet = None
    /\ rpc = "start"
    /\ OutlineIdle
    /\ CatalogIdle
    /\ LoaderIdle
    /\ MapperIdle
    /\ SlugIdle
    /\ ReaderIdle
    /\ StateIdle
    /\ MetaIdle
    /\ SidecarIdle

NextReview ==
    \/ ReviewEmpty
    \/ ReviewSplit
    \/ ReviewSentinel
    \/ ReviewAuthor
    \/ ReviewRating
    \/ ReviewNotes
    \/ ReviewNotesLine
    \/ ReviewSkip
    \/ ReviewReturn

SpecReview == InitReview /\ [][NextReview]_vars

\* The lines of the block as the loop sees them, stripped, and the index of
\* the first sentinel line among them (one past the last line if none).
StrippedLines ==
    LET ls == Split(Strip(reviewText, Space), "\n")
    IN  [i \in 1..Len(ls) |-> Strip(ls[i], Space)]

FirstSentinel ==
    SetMin({i \in 1..Len(StrippedLines) : StartsWith(StrippedLines[i], SentinelPrefix)}
           \cup {Len(StrippedLines) + 1})

\* The pieces between the commas of RATING: line i.
PairsOf(i) == Split(Strip(SubSeq(StrippedLines[i], 8, Len(StrippedLines[i])), Space), ",")

\* The text before and after the first "=" of a piece, trimmed.
KeyOf(piece) ==
    Strip(SubSeq(piece, 1, SetMin({k \in 1..Len(piece) : piece[k] = "="}) - 1), Space)

ValueOf(piece) ==
    Strip(SubSeq(piece, SetMin({k \in 1..Len(piece) : piece[k] = "="}) + 1, Len(piece)), Space)

\* The positions (line, piece) of the key=value pairs of the RATING: lines.
RatingPairs ==
    {p \in (1..(FirstSentinel - 1)) \X (1..8) :
        /\ StartsWith(StrippedLines[p[1]], <<"R","A","T","I","N","G",":">>)
        /\ p[2] <= Len(PairsOf(p[1]))
        /\ "=" \in Range(PairsOf(p[1])[p[2]])}

IntPairs == {p \in RatingPairs : IsInt(ValueOf(PairsOf(p[1])[p[2]]))}

Later(p, q) == p[1] > q[1] \/ (p[1] = q[1] /\ p[2] > q[2])

\* C12: the ratings returned hold one entry for every key of a key=value
\* pair of a RATING: line whose value is an integer, with the value of the
\* last such pair of that key; pairs whose value is empty or no integer add
\* nothing and take nothing away.
RatingsAreTheIntegerPairs ==
    rpc = "done" =>
        /\ \A i, j \in 1..Len(reviewRet.ratings) :
              reviewRet.ratings[i].key = reviewRet.ratings[j].key => i = j
        /\ {<<reviewRet.ratings[i].key, reviewRet.ratings[i].value>> :
                i \in 1..Len(reviewRet.ratings)}
           = {<<KeyOf(PairsOf(p[1])[p[2]]), IntOf(ValueOf(PairsOf(p[1])[p[2]]))>> :
                p \in {q \in IntPairs :
                          \A r \in IntPairs :
                              KeyOf(PairsOf(r[1])[r[2]]) = KeyOf(PairsOf(q[1])[q[2]])
                                  => ~Later(r, q)}}

\* A block with a pair whose value is no integer between pairs that are kept,
\* and a key set twice to different values.
RatingsDroppedAndOverwrittenWitness ==
    /\ rpc = "done"
    /\ Len(reviewRet.ratings) >= 1
    /\ \E p \in RatingPairs \ IntPairs : \E q \in IntPairs : q[1] = p[1] /\ Later(q, p)
    /\ \E p, q \in IntPairs :
          /\ Later(q, p)
          /\ KeyOf(PairsOf(p[1])[p[2]]) = KeyOf(PairsOf(q[1])[q[2]])
          /\ IntOf(ValueOf(PairsOf(p[1])[p[2]])) # IntOf(ValueOf(PairsOf(q[1])[q[2]]))

\* The lines of the text as written, and the lines before the first of them
\* that starts with the sentinel: as written, and after trimming the line.
WrittenLines == Split(reviewText, "\n")

BeforeSentinel(trimmed) ==
    LET at == {i \in 1..Len(WrittenLines) :
                  StartsWith(IF trimmed THEN Strip(WrittenLines[i], Space) ELSE WrittenLines[i],
                             SentinelPrefix)}
    IN  IF at = {} THEN WrittenLines ELSE SubSeq(WrittenLines, 1, SetMin(at) - 1)

\* C13: what parse_review_block returns is what it returns for the lines
\* before the first sentinel line alone, so no line at or after the sentinel
\* adds to author, ratings or notes.
NothingAfterSentinel ==
    rpc = "done" =>
        /\ reviewRet = ParseReviewBlock(JoinLines(BeforeSentinel(TRUE)))
        /\ reviewRet = ParseReviewBlock(JoinLines(BeforeSentinel(FALSE)))

\* A block with author, ratings or notes before the sentinel and a keyword
\* line after it.
SentinelCutsWitness ==
    /\ rpc = "done"
    /\ FirstSentinel > 1
    /\ FirstSentinel < Len(StrippedLines)
    /\ Branch(StrippedLines[FirstSentinel + 1], FALSE) \in {"author", "rating", "notes"}
    /\ reviewRet # ParseReviewBlock(<<>>)

\* The first NOTES: line before the sentinel (0 if none).
FirstNotes ==
    LET at == {i \in 1..(FirstSentinel - 1) :
                  StartsWith(StrippedLines[i], <<"N","O","T","E","S",":">>)}
    IN  IF at = {} THEN 0 ELSE SetMin(at)

\* C14 as stated: after a NOTES: line the notes are the text after its colon
\* and every later line up to the end of the block or the sentinel, joined
\* by newlines and trimmed.
NotesTakeEveryLaterLine ==
    (rpc = "done" /\ FirstNotes > 0) =>
        reviewRet.notes =
            Strip(JoinLines(<<SubSeq(StrippedLines[FirstNotes], 7, Len(StrippedLines[FirstNotes]))>>
                            \o SubSeq(StrippedLines, FirstNotes + 1, FirstSentinel - 1)),
                  Space)

\* What a line at or after the first NOTES: line adds to the notes: nothing
\* for an AUTHOR: or RATING: line, the text after the colon for a NOTES:
\* line (nothing if it is empty), the trimmed line otherwise.
RECURSIVE NotesFrom(_)
NotesFrom(ls) ==
    IF ls = <<>> THEN <<>>
    ELSE LET l == Head(ls)
             after == Strip(SubSeq(l, 7, Len(l)), Space)
         IN  (IF StartsWith(l, <<"A","U","T","H","O","R",":">>)
                  \/ StartsWith(l, <<"R","A","T","I","N","G",":">>)
              THEN <<>>
              ELSE IF StartsWith(l, <<"N","O","T","E","S",":">>)
              THEN (IF after = <<>> THEN <<>> ELSE <<after>>)
              ELSE <<l>>)
             \o NotesFrom(Tail(ls))

\* C14 amended: after a NOTES: line the notes are the text after its colon
\* and every later line that starts with none of AUTHOR:, RATING: and NOTES:
\* (a later NOTES: line adds the text after its colon), joined by newlines
\* and trimmed.
NotesTakeEveryLaterPlainLine ==
    (rpc = "done" /\ FirstNotes > 0) =>
        reviewRet.notes =
            Strip(JoinLines(NotesFrom(SubSeq(StrippedLines, FirstNotes, FirstSentinel - 1))),
                  Space)

\* Notes of two lines with a keyword line between them.
NotesAroundKeywordWitness ==
    /\ rpc = "done"
    /\ FirstNotes > 0
    /\ FirstNotes + 2 < FirstSentinel
    /\ Branch(StrippedLines[FirstNotes + 1], TRUE) \in {"author", "rating"}
    /\ "\n" \in Range(reviewRet.notes)

(***************************************************************************)
(* The chart reader over sequences of calls: a catalog of three charts,    *)
(* the CSV files of two of them, and up to MaxCalls calls of load_data and *)
(* get_summary.                                                            *)
(***************************************************************************)

ReaderCatalog ==
    /\ disk = ReaderDisk
    /\ specsText = None
    /\ plot_specs = <<>>
    /\ partIdx = 1
    /\ charts = ScanAll(<<>>, ReaderDisk.files, <<>>, CategoryFolders(ReaderDisk))
    /\ categories = CategoryFolders(ReaderDisk)
    /\ toScan = <<>>
    /\ cpc = "done"

ReaderStart ==
    /\ df_cache = <<>>
    /\ reads = <<>>
    /\ summaries = {}
    /\ nextObj = 0
    /\ rdCall = NoReaderCall
    /\ df = NoFrame
    /\ scenIdx = 0
    /\ by_scenario = <<>>
    /\ rdRet = NoReturn
    /\ rdPc = "idle"

InitReader ==
    /\ ReaderCatalog
    /\ csvFiles \in [{<<"e","m","i","s","s","i","o","n","s","/","t","o","t","a","l",".","c","s","v">>, <<"e","m","i","s","s","i","o","n","s","/","s","e","c","t","o","r",".","c","s","v">>} -> ReaderCsvs]
    /\ callsLeft = MaxCalls
    /\ ReaderStart
    /\ OutlineIdle
    /\ LoaderIdle
    /\ MapperIdle
    /\ SlugIdle
    /\ ReviewIdle
    /\ StateIdle
    /\ MetaIdle
    /\ SidecarIdle

NextReader ==
    \/ CallLoadData
    \/ GetSummaryNotFound
    \/ GetSummaryLoad
    \/ SummarizeScenario
    \/ SummaryReturn
    \/ ReaderReturns

SpecReader == InitReader /\ [][NextReader]_vars

(***************************************************************************)
(* One get_summary call on a CSV file of every shape.                      *)
(***************************************************************************)

InitSummary ==
    /\ ReaderCatalog
    /\ \E csv \in SummaryCsvs :
          csvFiles = [p \in {<<"e","m","i","s","s","i","o","n","s","/","t","o","t","a","l",".","c","s","v">>, <<"e","m","i","s","s","i","o","n","s","/","s","e","c","t","o","r",".","c","s","v">>} |->
                         IF p = <<"e","m","i","s","s","i","o","n","s","/","t","o","t","a","l",".","c","s","v">> THEN csv ELSE Unreadable]
    /\ callsLeft = 1
    /\ ReaderStart
    /\ OutlineIdle
    /\ LoaderIdle
    /\ MapperIdle
    /\ SlugIdle
    /\ ReviewIdle
    /\ StateIdle
    /\ MetaIdle
    /\ SidecarIdle

NextSummary ==
    \/ GetSummaryLoad
    \/ SummarizeScenario
    \/ SummaryReturn
    \/ ReaderReturns

SpecSummary == InitSummary /\ [][NextSummary]_vars

\* No CSV file is read again once a read of it has succeeded.
NoReadAfterSuccess ==
    \A i \in 1..Len(reads) : \A j \in 1..Len(reads) :
        (i < j /\ reads[i].chart_id = reads[j].chart_id) => ~reads[i].ok

\* What load_data returns for a cached id is the cache entry of that id.
ServedFromCache ==
    (rdPc = "done" /\ rdRet.kind = "frame") => rdRet.frame = df_cache[rdCall.chart_id]

\* A cache entry, once made, stays the same object.
CacheEntriesKept ==
    \A id \in DOMAIN df_cache : id \in DOMAIN df_cache' /\ df_cache'[id] = df_cache[id]

\* A ChartSummary returned is an object no earlier call returned, and no
\* frame; it is computed from the frame cached for its chart id.
SummaryIsNew ==
    (rdPc = "scenarios" /\ rdPc' = "done") =>
        /\ rdRet'.kind = "summary"
        /\ rdRet'.summary.obj \notin summaries
        /\ \A id \in DOMAIN df_cache : df_cache[id].obj # rdRet'.summary.obj
        /\ rdRet'.summary.frame = df_cache[rdCall.chart_id].obj
        /\ df = df_cache[rdCall.chart_id]

\* C15: over any sequence of load_data and get_summary calls the CSV of a
\* chart id is not read again after its first successful read: later calls
\* return the cache entry of that id, which never changes, and every
\* get_summary returns a new ChartSummary computed from the cached frame.
CsvReadAtMostOnce ==
    /\ [](NoReadAfterSuccess /\ ServedFromCache)
    /\ [][CacheEntriesKept /\ SummaryIsNew]_vars

\* Two summaries of one chart have been returned after a single read.
SecondSummaryFromCacheWitness ==
    /\ rdPc = "done"
    /\ rdRet.kind = "summary"
    /\ Cardinality(summaries) >= 2
    /\ Len(reads) = 1
    /\ reads[1].ok

\* A call that raises leaves the cache as it was.
FailedCallKeepsCache ==
    (rdPc = "idle" /\ rdPc' = "done" /\ rdRet'.kind = "raised") => df_cache' = df_cache

\* The call that has just ended asked for a chart the catalog does not hold
\* or one with no CSV path.
AskedForMissing ==
    /\ rdPc = "done"
    /\ \/ rdCall.chart_id \notin DOMAIN charts
       \/ charts[rdCall.chart_id].path_csv = None

\* C16: load_data and get_summary raise the ValueError when the chart id is
\* unknown to the catalog or the chart has no CSV path, no cache entry exists
\* for such an id, and a call that raises leaves the cache unchanged.
MissingChartRaises ==
    /\ [](AskedForMissing =>
             /\ rdRet = [kind |-> "raised", error |-> "ValueError"]
             /\ rdCall.chart_id \notin DOMAIN df_cache)
    /\ [][FailedCallKeepsCache]_vars

\* get_summary has raised for the chart with no CSV file, with the frame of
\* another chart in the cache.
NoCsvRaisesWitness ==
    /\ rdPc = "done"
    /\ rdCall = [op |-> "get_summary", chart_id |-> <<"f","l","e","e","t">>]
    /\ rdRet.kind = "raised"
    /\ DOMAIN df_cache # {}

\* get_summary has returned the summary of a frame of relative shape with a
\* scen column.
RelativeSummaryDone ==
    /\ rdPc = "done"
    /\ rdRet.kind = "summary"
    /\ HasCol(df, <<"v","a","l">>)
    /\ HasCol(df, <<"s","c","e","n">>)

\* The cell is text that holds "net" in any letter case.
HoldsNet(cell) ==
    /\ cell.t = "str"
    /\ \E p \in 1..(Len(cell.s) - 2) :
          /\ cell.s[p] \in {"n", "N"}
          /\ cell.s[p + 1] \in {"e", "E"}
          /\ cell.s[p + 2] \in {"t", "T"}

\* The scenarios of the frame, and the rows of a scenario: all of them, the
\* baseline rows and the others.
ScenariosOfFrame == {df.rows[i][ColIdx(df, <<"s","c","e","n">>)].s : i \in 1..Len(df.rows)}

RowsOfScenario(s) == {i \in 1..Len(df.rows) : df.rows[i][ColIdx(df, <<"s","c","e","n">>)] = TextCell(s)}

BaselineOfScenario(s) == {i \in RowsOfScenario(s) : HoldsNet(df.rows[i][1])}

OthersOfScenario(s) == RowsOfScenario(s) \ BaselineOfScenario(s)

RECURSIVE SumVal(_)
SumVal(S) ==
    IF S = {} THEN 0
    ELSE LET i == CHOOSE x \in S : TRUE IN Val(df, i) + SumVal(S \ {i})

\* The summary get_summary has returned for scenario s.
HasSummaryOf(s) == \E k \in 1..Len(rdRet.summary.by_scenario) : rdRet.summary.by_scenario[k].key = s

SummaryOf(s) ==
    rdRet.summary.by_scenario[CHOOSE k \in 1..Len(rdRet.summary.by_scenario) :
                                 rdRet.summary.by_scenario[k].key = s].value

\* C17: in the summary of a scenario of relative-shape data the baseline rows
\* are the rows whose first-column value holds "net" in any letter case:
\* baseline is the val of the first of them (absent when there is none) and
\* total_reduction is the sum of val over the other rows of the scenario,
\* rounded to two decimals (absent when there is none).
BaselineAndTotalByNetRows ==
    RelativeSummaryDone =>
        \A s \in ScenariosOfFrame :
            /\ HasSummaryOf(s)
            /\ SummaryOf(s).baseline =
                   IF BaselineOfScenario(s) # {}
                   THEN SomeInt(Val(df, SetMin(BaselineOfScenario(s)))) ELSE NoInt
            /\ SummaryOf(s).total_reduction =
                   IF OthersOfScenario(s) # {}
                   THEN SomeInt(Round2(SumVal(OthersOfScenario(s)))) ELSE NoInt

\* A scenario whose first baseline row is written in lower case, with a
\* second baseline row and rows that are summed.
LowerCaseBaselineWitness ==
    /\ RelativeSummaryDone
    /\ HasSummaryOf(<<"A">>)
    /\ SummaryOf(<<"A">>).baseline = SomeInt(300000)
    /\ Cardinality(BaselineOfScenario(<<"A">>)) >= 1
    /\ Cardinality(OthersOfScenario(<<"A">>)) >= 2
    /\ SummaryOf(<<"A">>).total_reduction.v # Round2(SumVal(RowsOfScenario(<<"A">>)))

\* The entry a list of the summary holds for row i.
EntryOfRow(i) == [sector |-> df.rows[i][1], value |-> Round2(Val(df, i))]

\* list is made of the rows picked, one entry each, in ascending val order.
ListsRows(list, picked) ==
    /\ Len(list) = Len(picked)
    /\ \A k \in 1..Len(picked) : list[k] = EntryOfRow(picked[k])
    /\ \A k \in 1..Len(picked) : \A l \in 1..Len(picked) :
           (k < l) => (picked[k] # picked[l] /\ Val(df, picked[k]) <= Val(df, picked[l]))

\* The least of two numbers.
Least(a, b) == IF a < b THEN a ELSE b

\* C18: for each scenario of relative-shape data top_reductions holds, in
\* ascending val order, the three most negative non-baseline rows (all of
\* them when fewer than three have val < 0), notable_increases holds every
\* non-baseline row with val > 0 in ascending val order, and so a row with
\* val = 0 is in neither list.
ReductionsAndIncreasesSorted ==
    RelativeSummaryDone =>
        \A s \in {x \in ScenariosOfFrame : OthersOfScenario(x) # {}} :
            LET neg == {i \in OthersOfScenario(s) : Val(df, i) < 0}
                pos == {i \in OthersOfScenario(s) : Val(df, i) > 0}
                top == SummaryOf(s).top_reductions
                inc == SummaryOf(s).notable_increases
            IN  /\ ~top.none
                /\ ~inc.none
                /\ Len(top.v) = Least(3, Cardinality(neg))
                /\ \E picked \in [1..Len(top.v) -> neg] :
                      /\ ListsRows(top.v, picked)
                      /\ \A i \in neg \ Range(picked) : \A k \in 1..Len(picked) :
                             Val(df, picked[k]) <= Val(df, i)
                /\ Len(inc.v) = Cardinality(pos)
                /\ \E picked \in [1..Len(inc.v) -> pos] : ListsRows(inc.v, picked)

\* A scenario with four rows below zero, two of them equal at the cut, of
\* which three are listed.
FourthReductionCutWitness ==
    /\ RelativeSummaryDone
    /\ HasSummaryOf(<<"A">>)
    /\ Cardinality({i \in OthersOfScenario(<<"A">>) : Val(df, i) < 0}) = 4
    /\ Len(SummaryOf(<<"A">>).top_reductions.v) = 3
    /\ SummaryOf(<<"A">>).top_reductions.v[3].sector = TextCell(<<"L","a","n","d">>)

\* The positions of key_insights that say "{s} achieves deepest total cuts".
DeepestCutsSaid(s) ==
    {k \in 1..Len(rdRet.summary.key_insights) :
        IF rdRet.summary.key_insights[k].kind = "deepest"
        THEN rdRet.summary.key_insights[k].scen = s
        ELSE FALSE}

\* The scenarios that have non-baseline rows, and the least of their totals.
ScenariosWithOthers == {s \in ScenariosOfFrame : OthersOfScenario(s) # {}}

LeastTotal == SetMin({SumVal(OthersOfScenario(s)) : s \in ScenariosWithOthers})

\* s is the first scenario of the summary or its total is the least one.
FirstOrLeast(s) ==
    \/ s = rdRet.summary.scenarios[1]
    \/ SumVal(OthersOfScenario(s)) = LeastTotal

\* C19 as stated: the sentence "{scen} achieves deepest total cuts" is in
\* the insights of a scenario with non-baseline rows exactly when it is the
\* first scenario or its non-baseline total is the least of all scenarios.
DeepestCutsForFirstOrLeast ==
    RelativeSummaryDone =>
        \A s \in ScenariosWithOthers : (DeepestCutsSaid(s) # {}) <=> FirstOrLeast(s)

\* C19: the sentence "{scen} achieves deepest total cuts" is emitted, once,
\* for a scenario exactly when the scenario has non-baseline rows, their
\* total is below zero, and the scenario is the first of the sorted scenarios
\* or its total is the least of all scenarios; so it is emitted for the first
\* scenario whenever that one has non-baseline rows of a total below zero.
DeepestCutsForNegativeFirstOrLeast ==
    RelativeSummaryDone =>
        \A s \in ScenariosOfFrame :
            /\ Cardinality(DeepestCutsSaid(s)) <= 1
            /\ (DeepestCutsSaid(s) # {}) <=>
                   /\ s \in ScenariosWithOthers
                   /\ SumVal(OthersOfScenario(s)) < 0
                   /\ FirstOrLeast(s)

\* The first scenario has non-baseline rows of a total above zero and no
\* sentence, the second has the least total and its sentence.
PositiveFirstScenarioWitness ==
    /\ RelativeSummaryDone
    /\ <<"A">> \in ScenariosWithOthers
    /\ rdRet.summary.scenarios[1] = <<"A">>
    /\ SumVal(OthersOfScenario(<<"A">>)) > 0
    /\ DeepestCutsSaid(<<"A">>) = {}
    /\ DeepestCutsSaid(<<"B">>) # {}

\* get_summary has returned the summary of a frame of time-series shape.
TimeSeriesSummaryDone ==
    /\ rdPc = "done"
    /\ rdRet.kind = "summary"
    /\ ~HasCol(df, <<"v","a","l">>)
    /\ YearCols(df) # <<>>

\* The positions of key_insights that hold a trend sentence, and those of
\* scenario s.
TrendsSaid ==
    {k \in 1..Len(rdRet.summary.key_insights) : rdRet.summary.key_insights[k].kind = "trend"}

TrendsSaidOf(s) == {k \in TrendsSaid : rdRet.summary.key_insights[k].scen = s}

\* C20: for time-series data one trend insight is produced for each of the
\* first two scenarios whose start total is not zero when the frame has a
\* scen column, and one for the whole dataset, its start total not being
\* zero, when the frame has none.
TrendPerScenarioOrDataset ==
    TimeSeriesSummaryDone =>
        IF HasCol(df, <<"s","c","e","n">>)
        THEN \A k \in 1..Len(rdRet.summary.scenarios) :
                 (k <= 2 /\ SumCol(df, ScenRows(df, rdRet.summary.scenarios[k]),
                                   FirstYear(YearCols(df))) # 0)
                     => Cardinality(TrendsSaidOf(rdRet.summary.scenarios[k])) = 1
        ELSE (SumCol(df, AllRows(df), FirstYear(YearCols(df))) # 0)
                 => Cardinality(TrendsSaid) = 1

\* The positions of key_insights that hold the comparison sentence.
HigherSaid ==
    {k \in 1..Len(rdRet.summary.key_insights) : rdRet.summary.key_insights[k].kind = "higher"}

\* The final-year total of scenario s, and the totals of all scenarios.
FinalTotal(s) == SumCol(df, ScenRows(df, s), LastYear(YearCols(df)))

FinalTotals == {FinalTotal(s) : s \in Range(rdRet.summary.scenarios)}

\* The comparison sentence is there exactly when the final totals differ, and
\* names a scenario of the highest and one of the lowest total.
ComparisonNamesExtremes ==
    /\ Cardinality(HigherSaid) <= 1
    /\ (HigherSaid # {}) <=> (SetMax(FinalTotals) # SetMin(FinalTotals))
    /\ \A k \in HigherSaid :
          /\ FinalTotal(rdRet.summary.key_insights[k].max_scen) = SetMax(FinalTotals)
          /\ FinalTotal(rdRet.summary.key_insights[k].min_scen) = SetMin(FinalTotals)

\* C21 as stated: with two or more scenarios the comparison sentence is
\* emitted exactly when the highest and the lowest final-year totals differ,
\* names scenarios of the highest and of the lowest total, and the difference
\* it reports is above zero.
ComparisonReportsPositiveDifference ==
    (TimeSeriesSummaryDone /\ Len(rdRet.summary.scenarios) >= 2) =>
        /\ ComparisonNamesExtremes
        /\ \A k \in HigherSaid : rdRet.summary.key_insights[k].diff > 0

\* C21: with two or more scenarios the comparison sentence is emitted exactly
\* when the highest and the lowest final-year totals differ and names
\* scenarios of the highest and of the lowest total; the difference of the two
\* totals is above zero, and the figure reported is that difference rounded
\* to one decimal, which is never below zero.
ComparisonReportsRoundedDifference ==
    (TimeSeriesSummaryDone /\ Len(rdRet.summary.scenarios) >= 2) =>
        /\ ComparisonNamesExtremes
        /\ \A k \in HigherSaid :
              /\ SetMax(FinalTotals) - SetMin(FinalTotals) > 0
              /\ rdRet.summary.key_insights[k].diff =
                     RoundDiv(SetMax(FinalTotals) - SetMin(FinalTotals), 100)
              /\ rdRet.summary.key_insights[k].diff >= 0

\* Two scenarios whose final totals are 0.03 apart: the sentence reports 0.0.
SmallDifferenceWitness ==
    /\ TimeSeriesSummaryDone
    /\ Len(rdRet.summary.scenarios) >= 2
    /\ HigherSaid # {}
    /\ \A k \in HigherSaid : rdRet.summary.key_insights[k].diff = 0

(***************************************************************************)
(* One get_summary call on CSV files with missing fields, a year column    *)
(* and columns named by digits.                                            *)
(***************************************************************************)

InitExtract ==
    /\ ReaderCatalog
    /\ \E csv \in ExtractCsvs :
          csvFiles = [p \in {<<"e","m","i","s","s","i","o","n","s","/","t","o","t","a","l",".","c","s","v">>, <<"e","m","i","s","s","i","o","n","s","/","s","e","c","t","o","r",".","c","s","v">>} |->
                         IF p = <<"e","m","i","s","s","i","o","n","s","/","t","o","t","a","l",".","c","s","v">> THEN csv ELSE Unreadable]
    /\ callsLeft = 1
    /\ ReaderStart
    /\ OutlineIdle
    /\ LoaderIdle
    /\ MapperIdle
    /\ SlugIdle
    /\ ReviewIdle
    /\ StateIdle
    /\ MetaIdle
    /\ SidecarIdle

NextExtract ==
    \/ GetSummaryLoad
    \/ SummarizeScenario
    \/ SummaryReturn
    \/ ReaderReturns

SpecExtract == InitExtract /\ [][NextExtract]_vars

\* The values of a column that are not null, as cells.
ValuesOf(name) ==
    {df.rows[i][ColIdx(df, name)] : i \in 1..Len(df.rows)} \ {NullCell}

\* list is in ascending order: strictly, or with equal neighbours allowed.
AscendingStrings(list) == \A k \in 1..(Len(list) - 1) : StrLess(list[k], list[k + 1])

AscendingInts(list) == \A k \in 1..(Len(list) - 1) : list[k] <= list[k + 1]

\* The names of the columns made of digits with a value from 2000 to 2100.
YearNames ==
    {c \in Range(df.columns) :
        /\ c # <<>>
        /\ \A i \in 1..Len(c) : c[i] \in Digits
        /\ DigitsValue(c) \in 2000..2100}

\* C22: the scenarios of a summary are the distinct scen values that are not
\* null, in ascending order with no duplicate, and none without a scen column;
\* its years are, with a year column, the integer of each distinct value that
\* is not null, in ascending order; without one, the values of the
\* digit-named columns from 2000 to 2100 in ascending order; else none.
ScenariosAndYearsExtracted ==
    (rdPc = "done" /\ rdRet.kind = "summary") =>
        /\ AscendingStrings(rdRet.summary.scenarios)
        /\ Range(rdRet.summary.scenarios) =
               IF HasCol(df, <<"s","c","e","n">>) THEN {c.s : c \in ValuesOf(<<"s","c","e","n">>)} ELSE {}
        /\ AscendingInts(rdRet.summary.years)
        /\ IF HasCol(df, <<"y","e","a","r">>)
           THEN /\ Len(rdRet.summary.years) = Cardinality(ValuesOf(<<"y","e","a","r">>))
                /\ \A c \in ValuesOf(<<"y","e","a","r">>) :
                      Cardinality({k \in 1..Len(rdRet.summary.years) :
                                      rdRet.summary.years[k] = IntPart(c.n)})
                          = Cardinality({d \in ValuesOf(<<"y","e","a","r">>) : IntPart(d.n) = IntPart(c.n)})
           ELSE /\ Len(rdRet.summary.years) = Cardinality(YearNames)
                /\ Range(rdRet.summary.years) = {DigitsValue(c) : c \in YearNames}

\* Scenarios and years taken from a year column with repeated and missing
\* values beside a column named by a year.
YearColumnWitness ==
    /\ rdPc = "done"
    /\ rdRet.kind = "summary"
    /\ HasCol(df, <<"y","e","a","r">>)
    /\ HasCol(df, <<"2","0","5","0">>)
    /\ Len(df.rows) > Len(rdRet.summary.years)
    /\ Len(rdRet.summary.years) >= 3
    /\ Len(rdRet.summary.scenarios) >= 3
    /\ NullCell \in {df.rows[i][ColIdx(df, <<"s","c","e","n">>)] : i \in 1..Len(df.rows)}

(***************************************************************************)
(* The construction of a catalog from the folder it is given.              *)
(***************************************************************************)

InitRoot ==
    /\ disk \in OriginalRoots
    /\ specsText = None
    /\ plot_specs = <<>>
    /\ partIdx = 0
    /\ charts = <<>>
    /\ categories = <<>>
    /\ toScan = <<>>
    /\ cpc = "find"
    /\ OutlineIdle
    /\ LoaderIdle
    /\ MapperIdle
    /\ SlugIdle
    /\ ReviewIdle
    /\ ReaderIdle
    /\ StateIdle
    /\ MetaIdle
    /\ SidecarIdle

NextRoot ==
    \/ FindRoot
    \/ LoadSpecsMissing
    \/ LoadSpecPart
    \/ LoadSpecsEnd
    \/ ScanNextCategory
    \/ ScanEnd

SpecRoot == InitRoot /\ [][NextRoot]_vars

\* The subfolders of the given folder that have no dot in front and hold a
\* plot_specs.json.
ExportFolders(original) ==
    {n \in original.dirs : n[1] # "." /\ original.subs[n].specs # None}

\* The path of the data root a catalog given original is to use: <<>> is the
\* given folder itself.
DataRootPath(original) ==
    IF original.exists /\ original.specs = None /\ ExportFolders(original) # {}
    THEN CHOOSE n \in ExportFolders(original) :
             \A m \in ExportFolders(original) \ {n} : StrLess(n, m)
    ELSE <<>>

\* C23: the data root is the given folder when that holds plot_specs.json,
\* else the first in sorted order of its subfolders with no dot in front
\* that hold plot_specs.json, else the given folder; a folder that does not
\* exist gives a catalog with no category and no chart.
DataRootResolved ==
    /\ [](cpc \in {"load", "scan", "done"} =>
             /\ disk.path = DataRootPath(disk.original_root)
             /\ ~disk.original_root.exists => (disk.dirs = {} /\ disk.files = {}))
    /\ []((cpc = "done" /\ ~disk.original_root.exists) =>
             (charts = <<>> /\ categories = <<>>))

\* A catalog built from the second export folder: the given folder has no
\* plot_specs.json, its dot folder has one and its first export folder none.
SecondSubfolderWitness ==
    /\ cpc = "done"
    /\ disk.path = <<"b","_","n","e","w">>
    /\ DOMAIN charts # {}
    /\ disk.original_root.plain # {}
    /\ disk.original_root.dirs = {<<".","c","a","c","h","e">>, <<"b","_","n","e","w">>, <<"a","_","o","l","d">>, <<"e","m","i","s","s","i","o","n","s">>}
    /\ disk.original_root.subs[<<".","c","a","c","h","e">>].specs # None
    /\ disk.original_root.subs[<<"a","_","o","l","d">>].specs = None
    /\ disk.original_root.subs[<<"e","m","i","s","s","i","o","n","s">>].specs # None

\* A catalog built from a folder that does not exist.
MissingRootWitness ==
    /\ cpc = "done"
    /\ ~disk.original_root.exists

\* The list _resolve_configured_charts returns for a mapping: the loop over
\* its selectors from the i-th on, with st = [result, seen] so far.
RECURSIVE ResolvedFrom(_, _, _, _)
ResolvedFrom(mapping, c, i, st) ==
    IF i > Len(mapping.selectors) THEN st.result
    ELSE IF CapReached(mapping.max_charts, st.result) THEN st.result
    ELSE LET sel == mapping.selectors[i]
             next == IF TruthyStr(sel.id)
                     THEN IF LookupChart(charts, sel.id) # NoChart
                          THEN AddChart(st, mapping.max_charts, LookupChart(charts, sel.id))
                          ELSE st
                     ELSE IF TruthyStr(sel.pattern)
                     THEN AddEach(st, mapping.max_charts, SortedMatches(charts, sel),
                                  sel.max, 0, FALSE)
                     ELSE IF sel.auto
                     THEN AddEach(st, mapping.max_charts, AutoMap(charts, c), sel.max, 0, TRUE)
                     ELSE st
         IN  ResolvedFrom(mapping, c, i + 1, [result |-> next.result, seen |-> next.seen])

\* The mapping without its i-th selector.
WithoutSelector(mapping, i) ==
    [mapping EXCEPT !.selectors =
        SubSeq(mapping.selectors, 1, i - 1)
            \o SubSeq(mapping.selectors, i + 1, Len(mapping.selectors))]

\* The selector is an explicit id that no chart of the catalog has, neither
\* as it is written nor after its first slash.
NamesAbsentChart(sel) ==
    /\ TruthyStr(sel.id)
    /\ sel.id \notin DOMAIN charts
    /\ ("/" \in Range(sel.id)) => (AfterSlash(sel.id) \notin DOMAIN charts)

\* A call for a section with a mapping has returned.
ConfiguredCallDone == mpc = "done" /\ HasMapping(static_mappings, call.section.id)

\* C24: an explicit id selector that names a chart absent from the catalog
\* contributes nothing and raises nothing: the list returned is the list
\* resolved from the same mapping with that selector removed.
AbsentIdChangesNothing ==
    ConfiguredCallDone =>
        /\ ret = ResolvedFrom(Mapping, call, 1, [result |-> <<>>, seen |-> {}])
        /\ \A i \in 1..Len(Mapping.selectors) :
              NamesAbsentChart(Mapping.selectors[i]) =>
                  ret = ResolvedFrom(WithoutSelector(Mapping, i), call, 1,
                                     [result |-> <<>>, seen |-> {}])

\* A list returned for a mapping whose first selector names an absent chart
\* and whose second one adds charts.
AbsentIdFirstWitness ==
    /\ ConfiguredCallDone
    /\ Len(Mapping.selectors) = 2
    /\ NamesAbsentChart(Mapping.selectors[1])
    /\ ~NamesAbsentChart(Mapping.selectors[2])
    /\ Len(ret) >= 2

\* The loop is at a pattern selector.
AtPatternSelector ==
    /\ AtSelector
    /\ ~TruthyStr(Selector.id)
    /\ TruthyStr(Selector.pattern)

\* a comes no later than b in the order the selector asks for.
NoLater(a, b, sel) ==
    IF sel.sort = <<"t","i","t","l","e">>
    THEN ~StrLess(b.title, a.title)
    ELSE ~ChartLess(b, a)

\* The matches of the selector that are not in the result yet.
NewMatches == {c \in Range(MatchPattern(charts, Selector.pattern)) : c \notin Range(result)}

\* How many charts the selector may add: its max, what the section cap
\* leaves, and the new matches there are.
PatternRoom ==
    Least(Least(IF Selector.max.none THEN Cardinality(NewMatches) ELSE Selector.max.v,
                IF Truthy(Mapping.max_charts)
                THEN Mapping.max_charts.v - Len(result) ELSE Cardinality(NewMatches)),
          Cardinality(NewMatches))

\* C28: a pattern selector with max = k adds at most k charts: the first, in
\* (category, id) order or in title order when its sort is "title", of the
\* matching charts that are not in the result yet, as many as k and the
\* section cap allow; matches that are in the result are not counted.
PatternAddsFirstNewMatches ==
    [][AtPatternSelector =>
          /\ Len(result') = Len(result) + PatternRoom
          /\ SubSeq(result', 1, Len(result)) = result
          /\ \A k \in (Len(result) + 1)..Len(result') :
                /\ result'[k] \in NewMatches
                /\ \A l \in (k + 1)..Len(result') : NoLater(result'[k], result'[l], Selector)
                /\ \A c \in NewMatches \ Range(result') : NoLater(result'[k], c, Selector)
          /\ (~Selector.max.none) => (Len(result') - Len(result) <= Selector.max.v)]_vars

\* A pattern selector with max 1 and sort "title" has added one chart after
\* its first match by title, which an explicit id had put in the result.
PresentMatchNotCountedWitness ==
    /\ mpc = "resolve"
    /\ selIdx = 3
    /\ Mapping.max_charts.none
    /\ Mapping.selectors[1].id = <<"e","m","i","s","s","i","o","n","s","/","e","m","i","s","s","i","o","n","s","_","b","y","_","s","e","c","t","o","r">>
    /\ TruthyStr(Mapping.selectors[2].pattern)
    /\ Mapping.selectors[2].max = SomeInt(1)
    /\ Len(result) = 2
    /\ result[1].id = <<"e","m","i","s","s","i","o","n","s","_","b","y","_","s","e","c","t","o","r">>

\* C29: an explicit selector "category/id" with no chart of that whole name
\* resolves to the chart whose id is the text after the first slash, whatever
\* the category of that chart, and to nothing if no chart has that id.
SlashIdResolvesByBaseId ==
    [][(AtSelector /\ TruthyStr(Selector.id) /\ Selector.id \notin DOMAIN charts
            /\ "/" \in Range(Selector.id)) =>
          result' = IF AfterSlash(Selector.id) \in DOMAIN charts
                    THEN IF charts[AfterSlash(Selector.id)] \in Range(result)
                         THEN result
                         ELSE Append(result, charts[AfterSlash(Selector.id)])
                    ELSE result]_vars

\* The selector "industry/emissions_power" has added the chart
\* emissions_power of the electricity folder.
OtherCategoryWitness ==
    /\ mpc = "resolve"
    /\ selIdx >= 2
    /\ Mapping.selectors[selIdx - 1].id = <<"i","n","d","u","s","t","r","y","/","e","m","i","s","s","i","o","n","s","_","p","o","w","e","r">>
    /\ result # <<>>
    /\ result[Len(result)].id = <<"e","m","i","s","s","i","o","n","s","_","p","o","w","e","r">>
    /\ result[Len(result)].category = <<"e","l","e","c","t","r","i","c","i","t","y">>

(***************************************************************************)
(* Section versions of a new report state                                  *)
(***************************************************************************)

\* ReportState.new(report_id)
InitVersions ==
    /\ StateIdle
    /\ OutlineIdle
    /\ CatalogIdle
    /\ LoaderIdle
    /\ MapperIdle
    /\ SlugIdle
    /\ ReviewIdle
    /\ ReaderIdle
    /\ MetaIdle
    /\ SidecarIdle

NextVersions ==
    \/ \E s \in StateSectionIds : IncrementSectionVersion(s)
    \/ \E s \in StateSectionIds : MarkSectionIntegrated(s)
    \/ \E s \in StateSectionIds : IsSectionStale(s)

SpecVersions == InitVersions /\ [][NextVersions]_vars

VersionExceedsIntegrated(meta, s) ==
    meta[s].version > meta[s].last_integrated_version

AnswersStale(s) == stCall'.op = "is_section_stale" /\ stCall'.section_id = s

\* C25: is_section_stale(s) answers whether the version of s exceeds its
\* last integrated version: it answers true for a section never seen, false
\* right after mark_section_integrated(s) and true right after
\* increment_section_version(s); in every step the last integrated version of
\* every section stays at or below its version, and no version decreases.
StaleFollowsVersions ==
    [][/\ \A s \in DOMAIN section_meta' :
             section_meta'[s].last_integrated_version <= section_meta'[s].version
       /\ \A s \in DOMAIN section_meta :
             /\ s \in DOMAIN section_meta'
             /\ section_meta'[s].version >= section_meta[s].version
       /\ \A s \in StateSectionIds :
             /\ AnswersStale(s) =>
                   stRet'.v = VersionExceedsIntegrated(section_meta', s)
             /\ AnswersStale(s) /\ s \notin DOMAIN section_meta => stRet'.v = TRUE
             /\ AnswersStale(s) /\ stCall = [op |-> "mark_section_integrated", section_id |-> s]
                   => stRet'.v = FALSE
             /\ AnswersStale(s) /\ stCall = [op |-> "increment_section_version", section_id |-> s]
                   => stRet'.v = TRUE
             /\ stCall' = [op |-> "mark_section_integrated", section_id |-> s]
                   => ~VersionExceedsIntegrated(section_meta', s)
             /\ stCall' = [op |-> "increment_section_version", section_id |-> s]
                   => VersionExceedsIntegrated(section_meta', s)]_vars

\* A section integrated at version 2 or later is asked about and is not
\* stale, while another section has been changed since its integration.
IntegratedAndStaleWitness ==
    /\ stCall.op = "is_section_stale"
    /\ stRet.v = FALSE
    /\ section_meta[stCall.section_id].version >= 2
    /\ \E s \in DOMAIN section_meta :
          /\ section_meta[s].last_integrated_version >= 1
          /\ VersionExceedsIntegrated(section_meta, s)

(***************************************************************************)
(* Figure and table registration                                           *)
(***************************************************************************)

Fig(id) == CanonicalFigure(id, <<"l","o","a","d","e","d">>, <<"r","e","s","u","l","t","s">>, <<"L","o","a","d","e","d">>, None)

Tbl(id) == CanonicalTable(id, <<"l","o","a","d","e","d">>, <<"r","e","s","u","l","t","s">>, <<"L","o","a","d","e","d">>)

\* Figure and table lists of a loaded report_state.json, with pairwise
\* distinct ids: written by the program, with gaps, with leading zeros, with
\* ids that are no F or T numbers.
LoadedFigures ==
    {<<>>, <<Fig(<<"F","1">>), Fig(<<"F","5">>)>>, <<Fig(<<"F","0","5">>)>>, <<Fig(<<"f","i","g","-","a">>), Fig(<<"F","2">>)>>,
     <<Fig(<<"F","x">>)>>, <<Fig(<<"F","-","2">>)>>, <<Fig(<<"T","7">>)>>}

LoadedTables == {<<>>, <<Tbl(<<"T","1">>), Tbl(<<"T","3">>)>>, <<Tbl(<<"F","2">>)>>, <<Tbl(<<"T">>)>>}

InitRegister ==
    /\ figures \in LoadedFigures
    /\ tables \in LoadedTables
    /\ section_meta = <<>>
    /\ stCall = NoStateCall
    /\ stRet = NoReturn
    /\ OutlineIdle
    /\ CatalogIdle
    /\ LoaderIdle
    /\ MapperIdle
    /\ SlugIdle
    /\ ReviewIdle
    /\ ReaderIdle
    /\ MetaIdle
    /\ SidecarIdle

NextRegister ==
    \/ \E a \in FigureArgs : RegisterFigure(a)
    \/ \E a \in TableArgs : RegisterTable(a)

SpecRegister == InitRegister /\ [][NextRegister]_vars

PairwiseDistinctIds(list) ==
    \A i, j \in 1..Len(list) : i # j => list[i].id # list[j].id

\* The numbers of the ids of the list that are the letter followed by
\* decimal digits.
NumbersOfIds(list, letter) ==
    {DigitsValue(Tail(list[i].id)) : i \in
        {k \in 1..Len(list) : /\ list[k].id # <<>>
                              /\ list[k].id[1] = letter
                              /\ Len(list[k].id) > 1
                              /\ \A c \in Range(Tail(list[k].id)) : c \in Digits}}

LargestNumber(list, letter) ==
    IF NumbersOfIds(list, letter) = {} THEN 0 ELSE SetMax(NumbersOfIds(list, letter))

Earlier(list) == SubSeq(list, 1, Len(list) - 1)

\* C26: figure ids stay pairwise distinct and the figure just registered has
\* the id F(k+1), k being the largest number of the F-numbered ids there
\* were before (0 when there was none); the same for tables with T.
RegisteredIdsDistinctAndNext ==
    /\ PairwiseDistinctIds(figures)
    /\ PairwiseDistinctIds(tables)
    /\ stCall.op = "register_figure" =>
          /\ figures[Len(figures)].id =
                <<"F">> \o IntStr(LargestNumber(Earlier(figures), "F") + 1)
          /\ stRet.v = figures[Len(figures)]
    /\ stCall.op = "register_table" =>
          /\ tables[Len(tables)].id =
                <<"T">> \o IntStr(LargestNumber(Earlier(tables), "T") + 1)
          /\ stRet.v = tables[Len(tables)]

\* A figure registered after F1 and F5 got F6.
AfterGapWitness ==
    /\ stCall.op = "register_figure"
    /\ Len(figures) = 3
    /\ figures[1].id = <<"F","1">>
    /\ figures[2].id = <<"F","5">>
    /\ figures[3].id = <<"F","6">>

(***************************************************************************)
(* Serializing, parsing and injecting section meta comments                *)
(***************************************************************************)

InitMeta ==
    /\ smMeta \in Metas
    /\ smContent \in Contents
    /\ smSerialized = <<>>
    /\ smParsed = MetaNone
    /\ smInjected = NoText
    /\ smAgain = NoText
    /\ smPc = "start"
    /\ OutlineIdle
    /\ CatalogIdle
    /\ LoaderIdle
    /\ MapperIdle
    /\ SlugIdle
    /\ ReviewIdle
    /\ ReaderIdle
    /\ StateIdle
    /\ SidecarIdle

NextMeta ==
    \/ Serialize
    \/ ParseSerialized
    \/ Inject
    \/ InjectAgain

SpecMeta == InitMeta /\ [][NextMeta]_vars

\* The number of REPORT_SECTION_META comments SECTION_META_PATTERN finds in
\* the text from position from on.
RECURSIVE MetaCount(_, _)
MetaCount(s, from) ==
    IF ~MetaSearch(s, from).ok THEN 0 ELSE 1 + MetaCount(s, MetaSearch(s, from).end + 1)

ParsesTo(text, m) ==
    /\ ParseSectionMeta(text).kind = "meta"
    /\ ParseSectionMeta(text).meta = m

\* C27: the serialized meta parses back to a meta with the same section_id,
\* version and integration hints; the injected content holds exactly one
\* REPORT_SECTION_META comment, at its top, which parses back to the meta,
\* and injecting the meta again changes nothing.
InjectGivesOneMetaOnTop ==
    /\ smPc \in {"parsed", "injected", "done"} =>
          /\ smParsed.kind = "meta"
          /\ smParsed.meta = smMeta
    /\ smPc \in {"injected", "done"} =>
          /\ ~smInjected.raises
          /\ MetaCount(smInjected.text, 1) = 1
          /\ MetaSearch(smInjected.text, 1).start = 1
          /\ ParsesTo(smInjected.text, smMeta)
    /\ smPc = "done" => smAgain = smInjected

(***************************************************************************)
(* Section files written from an outline and parsed again                  *)
(***************************************************************************)

InitSidecar ==
    /\ content \in SidecarOutlines
    /\ headings = <<>>
    /\ idx = 0
    /\ parent_stack = <<>>
    /\ sections = <<>>
    /\ opc = "start"
    /\ scPhase = "outline"
    /\ scSection = NoOutlineSection
    /\ scBody = <<>>
    /\ CatalogIdle
    /\ LoaderIdle
    /\ MapperIdle
    /\ SlugIdle
    /\ ReviewIdle
    /\ ReaderIdle
    /\ StateIdle
    /\ MetaIdle

NextSidecar ==
    \/ ReadOutline
    \/ ParseHeading
    \/ ReturnSections
    \/ WriteSection

SpecSidecar == InitSidecar /\ [][NextSidecar]_vars

\* No line of the text is a heading.
HeadingFree(text) == FindHeadings(text, 1) = <<>>

\* C30: when the file written for a section with a heading-free body has
\* been parsed, there is one section, with the title, level, instructions
\* and review comments (and so the review author, ratings and notes) of the
\* section written, also when its review comments are empty.
WrittenSectionParsesBack ==
    (scPhase = "written" /\ opc = "done" /\ HeadingFree(scBody)) =>
        /\ Len(sections) = 1
        /\ sections[1].title = scSection.title
        /\ sections[1].level = scSection.level
        /\ sections[1].instructions = scSection.instructions
        /\ sections[1].review_comments = scSection.review_comments
        /\ sections[1].review_author = scSection.review_author
        /\ sections[1].review_ratings = scSection.review_ratings
        /\ sections[1].review_notes = scSection.review_notes

====
